---- MODULE Spec2Model ----
(***************************************************************************)
(* Append-only image store on raw NOR flash (index region + data region),  *)
(* its page-bounded write driver, and the scan-based recovery tool.        *)
(*                                                                         *)
(* The flash chip is the shared data structure.  A page-program command    *)
(* can only clear bits (NOR flash: new = old AND data) and wraps inside    *)
(* its 256-byte page.  A chunk program can fail (transport exception or    *)
(* busy-wait timeout); when the failure is raised by the busy-wait the     *)
(* program command has already been transmitted, so a failed chunk may or  *)
(* may not have been programmed.                                           *)
(*                                                                         *)
(* The index region is scaled to IndexSlots slots (the source has 1536);   *)
(* all other layout constants keep the values of the source.               *)
(***************************************************************************)
EXTENDS Integers, Sequences, FiniteSets, TLC

\* ------------------------------------------------------------------ bounds
\* Number of 8-byte slots of the (scaled) index region.
IndexSlots == 4
\* Chunk failures plus process crashes one behaviour may contain.
MaxFaults == 1
\* status polls followed in one busy-wait before the timeout is forced
MaxPolls == 2
\* a driver call is followed only while fewer transfers than this were seen
MaxTransfers == 4
\* serial ports opened (and listener threads created) in one behaviour
MaxStarts == 2
\* items the receive queue holds before the wire goes quiet
MaxQueue == 2

\* --------------------------------------------------------------- constants
INDEX_ENTRY_SIZE == 8
ADDRESS_SIZE == 4
ERASED_BYTE == 255
PAGE_SIZE == 256
CMD_WRITE_ENABLE == 6
CMD_READ_STATUS_REG1 == 5
CMD_PAGE_PROGRAM_4B == 18
CMD_READ_DATA_4B == 19
CMD_SECTOR_ERASE_4KB_4B == 33
CMD_BLOCK_ERASE_32KB_4B == 92
CMD_BLOCK_ERASE_64KB_4B == 220
CMD_DIE_ERASE_4B == 196
STATUS_WIP_BIT == 1
SECTOR_SIZE_4KB == 4 * 1024
SECTOR_SIZE_32KB == 32 * 1024
SECTOR_SIZE_64KB == 64 * 1024
DIE_SIZE == 67108864
\* uart_protocol.py
NACK_INVALID_FIELD_VALUE == 255
MAXIMUM_BUFFER_SIZE == 45
MINIMUM_BUFFER_SIZE == 6
FRAME_OVERHEAD == 6
HEADER == 62
STOP_BYTE == 10
HEADER_IDX == 0
CMD_IDX == 1
DATA_LENGTH_IDX == 2
\* command_handler.Commands
POWEROFF == 48
REBOOT == 49
STATUS == 50
READ_CHUNK_SIZE == 4091
INDEX_1ST == 0
INDEX_END == INDEX_1ST + IndexSlots * INDEX_ENTRY_SIZE - 1
DATA_1ST == 12288
DATA_END == 134217727
\* Python's None, for the cursors of a full index and for a failed read.
None == -1

Min(a, b) == IF a < b THEN a ELSE b

\* ------------------------------------------------------------ byte helpers
RECURSIVE BitAnd(_, _)
\* Bitwise AND of two bytes: what a page program leaves in a NOR cell.
BitAnd(a, b) ==
    IF a = 0 \/ b = 0 THEN 0
    ELSE ((a % 2) * (b % 2)) + (2 * BitAnd(a \div 2, b \div 2))

\* int.to_bytes(4, "big")
ToBytesBig(n) ==
    << (n \div 16777216) % 256, (n \div 65536) % 256, (n \div 256) % 256, n % 256 >>

\* int.from_bytes(b, "big"); the empty list gives 0
RECURSIVE FromBytesBig(_)
FromBytesBig(b) ==
    IF Len(b) = 0 THEN 0
    ELSE (256 * FromBytesBig(SubSeq(b, 1, Len(b) - 1))) + b[Len(b)]

\* Python slice s[:n]
Take(s, n) == SubSeq(s, 1, Min(n, Len(s)))
\* Python slice s[n:]
Drop(s, n) == SubSeq(s, n + 1, Len(s))
\* [ERASED_BYTE] * n
Erased(n) == [i \in 1..n |-> ERASED_BYTE]

\* ---------------------------------------------------------- the flash chip
\* The chip's contents: a function from the addresses programmed so far to
\* their bytes; every other address still holds the erased byte.
FlashByte(f, a) == IF a \in DOMAIN f THEN f[a] ELSE ERASED_BYTE

\* Address reached by byte i (from 0) of a page program at address a: the
\* chip's address counter wraps inside the page.
PageAddr(a, i) ==
    ((a \div PAGE_SIZE) * PAGE_SIZE) + (((a % PAGE_SIZE) + i) % PAGE_SIZE)

\* Page Program (0x12) of data_chunk at address: bits are only cleared, and
\* bytes sent past the end of the page land at its start.
PageProgram(f, address, data_chunk) ==
    LET n == Len(data_chunk)
        touched == { PageAddr(address, i - 1) : i \in 1..n }
        \* bytes of the chunk landing on address a, in transmission order
        hits(a) == IF (address % PAGE_SIZE) + n <= PAGE_SIZE
                   THEN { a - address + 1 }
                   ELSE { i \in 1..n : PageAddr(address, i - 1) = a }
        RECURSIVE land(_, _)
        land(old, S) ==
            IF S = {} THEN old
            ELSE LET i == CHOOSE x \in S : \A y \in S : x <= y
                 IN land(BitAnd(old, data_chunk[i]), S \ {i})
        programmed == DOMAIN f
    IN [a \in programmed \cup touched |->
            IF a \in touched
            THEN land(IF a \in programmed THEN f[a] ELSE ERASED_BYTE, hits(a))
            ELSE f[a]]

\* FlashMemory.read_bytes on a transport that returns every requested byte.
read_bytes(f, address, length) ==
    IF length <= 0 THEN << >>
    ELSE LET programmed == DOMAIN f
         IN [i \in 1..length |->
                IF address + i - 1 \in programmed THEN f[address + i - 1]
                ELSE ERASED_BYTE]

\* ---------------------------------------------------------------- allocator
\* A variant of is_index_entry_empty that looks at the start half only.
is_index_entry_empty_half(entry_bytes) ==
    Take(entry_bytes, ADDRESS_SIZE) = Erased(ADDRESS_SIZE)

\* flash_actions.is_index_entry_empty: all 8 bytes are 0xFF
is_index_entry_empty(entry_bytes) ==
    Take(entry_bytes, INDEX_ENTRY_SIZE) = Erased(INDEX_ENTRY_SIZE)

\* parse_index_entry: the pair (start_addr, end_addr).  The pair is written
\* as a function on 1..2 so that a component is computed only where the
\* caller uses it: a start of 0xFFFFFFFF, which the allocator scan parses
\* and discards, is beyond the integers of the model checker.
parse_index_entry(entry_bytes) ==
    [i \in 1..2 |->
        IF i = 1 THEN FromBytesBig(Take(entry_bytes, ADDRESS_SIZE))
        ELSE FromBytesBig(Drop(entry_bytes, ADDRESS_SIZE))]

\* A variant of create_index_entry that records the last byte's address.
create_index_entry_inclusive(start_addr, end_addr) ==
    ToBytesBig(start_addr) \o ToBytesBig(end_addr - 1)

create_index_entry(start_addr, end_addr) ==
    ToBytesBig(start_addr) \o ToBytesBig(end_addr)

RECURSIVE ScanFromStale(_, _, _)
\* A variant of ScanFrom that never advances last_data_end_addr.
ScanFromStale(f, current_index_addr, last_data_end_addr) ==
    IF current_index_addr > INDEX_END THEN << None, None >>
    ELSE IF is_index_entry_empty(read_bytes(f, current_index_addr, INDEX_ENTRY_SIZE))
         THEN << current_index_addr, last_data_end_addr >>
         ELSE ScanFromStale(f, current_index_addr + INDEX_ENTRY_SIZE,
                            last_data_end_addr)

RECURSIVE ScanFrom(_, _, _)
\* The while loop of find_next_available_address.
ScanFrom(f, current_index_addr, last_data_end_addr) ==
    IF current_index_addr > INDEX_END THEN << None, None >>
    ELSE LET entry_bytes == read_bytes(f, current_index_addr, INDEX_ENTRY_SIZE)
         IN IF is_index_entry_empty(entry_bytes)
            THEN << current_index_addr, last_data_end_addr >>
            ELSE ScanFrom(f, current_index_addr + INDEX_ENTRY_SIZE,
                          parse_index_entry(entry_bytes)[2])

find_next_available_address(f) == ScanFrom(f, INDEX_1ST, DATA_1ST)

\* A variant of validate_storage_capacity whose comparisons are >=.
validate_storage_capacity_strict(next_data, image_size, next_index) ==
    IF next_data + image_size >= DATA_END THEN FALSE
    ELSE IF next_index >= INDEX_END THEN FALSE
    ELSE TRUE

validate_storage_capacity(next_data, image_size, next_index) ==
    IF next_data + image_size > DATA_END THEN FALSE
    ELSE IF next_index > INDEX_END THEN FALSE
    ELSE TRUE

\* ------------------------------------------------------------- write_bytes
\* A variant of ChunkSize that ignores the distance to the page end.
ChunkSizeUnclamped(address, data_len, written) ==
    Min(PAGE_SIZE, data_len - written)

\* chunk_size of one iteration of the write_bytes loop
ChunkSize(address, data_len, written) ==
    LET current_address == address + written
        offset_in_page == current_address % PAGE_SIZE
        bytes_to_page_end == PAGE_SIZE - offset_in_page
        bytes_left_to_write == data_len - written
    IN Min(bytes_to_page_end, bytes_left_to_write)

\* ------------------------------------------------------------- mock images
\* photo_cnn_mockup.simulate_image_capture picks any file of the mock image
\* directory; NoImage stands for a capture that yields no file or no bytes.
NoImage == "none"
MockImages == { "forest", "plain" }
ScenarioOrder == << "s100", "s4096", "s50" >>
ImageSize(img) ==
    CASE img = "forest" -> 120
      [] img = "plain"  -> 20
      [] img = "s100"   -> 100
      [] img = "s4096"  -> 4096
      [] img = "s50"    -> 50
      [] OTHER          -> 0
ImageSeed(img) ==
    CASE img = "forest" -> 165
      [] img = "plain"  -> 90
      [] img = "s100"   -> 17
      [] img = "s4096"  -> 1
      [] img = "s50"    -> 201
      [] OTHER          -> 0
\* read_image_data: the bytes of the chosen file
ImageBytes(img) == [i \in 1..ImageSize(img) |-> (ImageSeed(img) + (3 * i)) % 256]

\* A transport fault of a recovery run: the read-th read_bytes call made for
\* image number entry returns only its first deliver bytes.  entry = 0: none.
NoReadFault == [entry |-> 0, read |-> 0, deliver |-> 0]

\* -------------------------------------------------------------------- state
VARIABLES
    flash,            \* contents of the chip (see FlashByte)
    next_index_addr,  \* run_main_loop's cursors
    next_data_addr,
    pc,               \* "main", inside a store cycle "data" / "index",
                      \* a lone write_bytes call "write" / "returned",
                      \* after the recovery tool has run "recovered"
    image,            \* the image of the store cycle in progress
    wr_address,       \* arguments and loop counter of the write_bytes call
    wr_data,          \*   in progress
    bytes_written,
    result,           \* outcome of the last store cycle / write_bytes call
    returned,         \* what the last store_image_to_flash call returned:
                      \*   the new cursor pair, or << >> for None
    failed_phase,     \* history: the phase whose write_bytes returned False
                      \*   in this cycle, or "none"
    index_before,     \* history: the index region when the cycle began
    programs,         \* page programs transmitted since the cycle began
    faults,           \* chunk failures and mid-cycle crashes so far
    stored,           \* history: the cycles that returned success
    issued,           \* history: the index programs that reached the chip
    orphans,          \* history: data addresses programmed by a cycle that
                      \*   stopped before its index entry was transmitted
    rec_files,        \* files written by the last recovery run
    rec_counts,       \* its (recovered_count, image_count)
    rec_tried,        \* the entries it attempted, with the outcome
    rec_fault,        \* the transport fault of that run
    is_open,          \* FlashMemory.is_open
    spi,              \* the xfer2 transfers completed on the bus, in order,
                      \*   where the driver is followed transfer by transfer
    step,             \* position inside _write_page / an erase: "enable",
                      \*   "command", "poll", or "none" outside
    call,             \* the erase call in progress: opcode and address
    error,            \* the exception raised inside the last driver call
    _is_running,      \* uart._is_running
    _serial_port,     \* uart._serial_port: 0 for None, else the port it names
    _listener_thread, \* uart._listener_thread: 0 for None, else the thread
    _data_queue,      \* uart._data_queue: the items, oldest first
    ports,            \* the serial.Serial objects created: is_open of each
    threads,          \* the listener threads created: where each one is in
                      \*   _serial_listener and the port it is reading from
    uart_call,        \* the last call into uart.py and what it raised
    uart_protocol,    \* the module uart_protocol: "unloaded", "loaded", or
                      \*   the error its import raised
    buffer,           \* UARTProtocol.buffer
    frame,            \* what validate_and_extract_frame returned last
                      \*   (<< >> for None)
    frame_type,       \* what classify_frame returned last, or "none"
    sent,             \* the frames handed to uart.send_data, in order
    proto_call,       \* the entry into uart_protocol that has run: "none",
                      \*   "parse", "classify", "split", "loop" or "pull"
    rx,               \* history: the bytes that entry was given
    first,            \* what the first of two validate_and_extract_frame
                      \*   calls returned, left and sent
    handled,          \* the command handlers run, in order, each with the
                      \*   number of frames sent before it
    crc_match,        \* history: the verdict of the CRC comparison of
                      \*   evaluate_crc for the frame given, "none" when
                      \*   no frame was given to the main loop
    main_pc,          \* where main() is: "idle" before it is entered,
                      \*   "flash_init", "loop", "finally", "cleaned",
                      \*   "exited"
    main_flash,       \* whether main's variable flash holds a FlashMemory
    shutdown_type,    \* main's shutdown_type: "none", "poweroff", "reboot"
    raised,           \* history: the exception that left main's try block
    events            \* history: the steps of cleanup and the system
                      \*   shutdown commands run, in order

vars == << flash, next_index_addr, next_data_addr, pc, image, wr_address,
           wr_data, bytes_written, result, returned, failed_phase, index_before,
           programs, faults, stored, issued, orphans, rec_files, rec_counts,
           rec_tried, rec_fault, is_open, spi, step, call, error,
           _is_running, _serial_port, _listener_thread, _data_queue, ports,
           threads, uart_call, uart_protocol, buffer, frame, frame_type, sent,
           proto_call, rx, first, handled, crc_match, main_pc, main_flash,
           shutdown_type, raised, events >>

cursorVars == << next_index_addr, next_data_addr >>
writeVars == << wr_address, wr_data, bytes_written >>
histVars == << stored, issued, orphans >>
recVars == << rec_files, rec_counts, rec_tried, rec_fault >>

\* Addresses covered by the page programs of a log that target the data region
DataAddrs(log) ==
    UNION { { PageAddr(log[k].address, i - 1) : i \in 1..Len(log[k].data) } :
            k \in { j \in 1..Len(log) : log[j].address >= DATA_1ST } }
\* The bytes of the index region
IndexRegion(f) == read_bytes(f, INDEX_1ST, INDEX_END - INDEX_1ST + 1)
IndexPrograms(log) == { k \in 1..Len(log) : log[k].address <= INDEX_END }

\* main(): the cursors come from a scan of the index
driverVars == << is_open, spi, step, call, error >>

NoCall == [cmd |-> 0, address |-> 0, size |-> 0]

uartVars == << _is_running, _serial_port, _listener_thread, _data_queue,
               ports, threads, uart_call >>

protoVars == << uart_protocol, buffer, frame, frame_type, sent, proto_call, rx,
                first, handled, crc_match >>

mainVars == << main_pc, main_flash, shutdown_type, raised, events >>

NoException == [class |-> "none", message |-> << >>]

\* main() not entered.
MainIdle ==
    /\ main_pc = "idle"
    /\ main_flash = FALSE
    /\ shutdown_type = "none"
    /\ raised = NoException
    /\ events = << >>

NoResult == [given |-> << >>, frame |-> << >>, buffer |-> << >>, sent |-> << >>]

\* uart_protocol.py not yet imported, no UARTProtocol object in use.
ProtoIdle ==
    /\ uart_protocol = "unloaded"
    /\ buffer = << >>
    /\ frame = << >>
    /\ frame_type = "none"
    /\ sent = << >>
    /\ proto_call = "none"
    /\ rx = << >>
    /\ first = NoResult
    /\ handled = << >>
    /\ crc_match = "none"

\* uart.py as imported: lines 11-15, nothing started yet.
UartIdle ==
    /\ _is_running = FALSE
    /\ _serial_port = 0
    /\ _listener_thread = 0
    /\ _data_queue = << >>
    /\ ports = << >>
    /\ threads = << >>
    /\ uart_call = [name |-> "none", raised |-> "none"]

\* An open device on which no transfer has been followed yet.
DriverIdle ==
    /\ is_open = TRUE
    /\ spi = << >>
    /\ step = "none"
    /\ call = NoCall
    /\ error = "none"

Init ==
    /\ flash = << >>
    /\ next_index_addr = find_next_available_address(flash)[1]
    /\ next_data_addr = find_next_available_address(flash)[2]
    /\ pc = "main"
    /\ image = NoImage
    /\ wr_address = 0
    /\ wr_data = << >>
    /\ bytes_written = 0
    /\ result = "none"
    /\ failed_phase = "none"
    /\ index_before = IndexRegion(flash)
    /\ programs = << >>
    /\ faults = 0
    /\ stored = << >>
    /\ issued = {}
    /\ orphans = {}
    /\ rec_files = << >>
    /\ rec_counts = << 0, 0 >>
    /\ rec_tried = << >>
    /\ rec_fault = NoReadFault
    /\ DriverIdle
    /\ UartIdle
    /\ ProtoIdle
    /\ MainIdle
    /\ returned = << >>

\* ------------------------------------------------------------ store cycle
HasCursors == next_index_addr /= None /\ next_data_addr /= None

\* A variant of Accepts without the capacity check.
AcceptsUnchecked(img) ==
    /\ img /= NoImage
    /\ ImageSize(img) > 0

\* store_image_to_flash up to its call of _store_image_to_flash: the checks
\* that reject a cycle before anything is written.
Accepts(img) ==
    /\ img /= NoImage
    /\ ImageSize(img) > 0
    /\ validate_storage_capacity(next_data_addr, ImageSize(img), next_index_addr)

\* A variant of StoreReturn that hands back the pair it was given.
StoreReturnKeepsCursors(index_addr, data_addr, image_size) ==
    << index_addr, data_addr >>

\* A variant of StoreReturn that advances the index cursor by an entry and
\* a half.
StoreReturnEntryAndHalf(index_addr, data_addr, image_size) ==
    << index_addr + INDEX_ENTRY_SIZE + ADDRESS_SIZE, data_addr + image_size >>

\* A variant of StoreReturn that hands back the blob's start address.
StoreReturnsStart(index_addr, data_addr, image_size) ==
    << index_addr + INDEX_ENTRY_SIZE, data_addr >>

\* What _store_image_to_flash returns after both writes succeeded.
StoreReturn(index_addr, data_addr, image_size) ==
    << index_addr + INDEX_ENTRY_SIZE, data_addr + image_size >>

\* The index entry _store_image_to_flash builds for the blob.
EntryFor(data_addr, image_size) ==
    create_index_entry(data_addr, data_addr + image_size)

\* A variant of AfterWrite that does not test what the blob write returned.
AfterWriteUnchecked(phase, ok) ==
    IF phase = "data" THEN "index"
    ELSE IF ok THEN "stored"
    ELSE "failed"

\* Control flow of _store_image_to_flash / store_image_to_flash after the
\* write_bytes call of a phase returned ok: the blob write is followed by the
\* index write, the index write by the return of the new cursors, and a False
\* raises FlashStorageError, which store_image_to_flash turns into None.
AfterWrite(phase, ok) ==
    IF ~ok THEN "failed"
    ELSE IF phase = "data" THEN "index"
    ELSE "stored"

\* The chunk the write_bytes loop is about to program.
CurrentAddress == wr_address + bytes_written
CurrentChunk ==
    SubSeq(wr_data, bytes_written + 1,
           bytes_written + ChunkSize(wr_address, Len(wr_data), bytes_written))

\* History kept when a cycle stops without returning success.
Abandon(log) ==
    /\ orphans' = IF IndexPrograms(log) = {} THEN orphans \cup DataAddrs(log)
                  ELSE orphans
    /\ stored' = stored

\* The locals of a store cycle go out of scope when it returns.
Forget ==
    /\ image' = NoImage
    /\ wr_address' = 0
    /\ wr_data' = << >>
    /\ bytes_written' = 0

IssuedRecord ==
    [slot |-> next_index_addr, start |-> next_data_addr,
     end |-> next_data_addr + ImageSize(image), image |-> image]

\* run_main_loop, store interval, cursors are None: store is not called.
LoopSkip ==
    /\ pc = "main"
    /\ ~HasCursors
    /\ result' = "skipped"
    /\ programs' = << >>
    /\ failed_phase' = "none"
    /\ UNCHANGED returned
    /\ UNCHANGED << flash, cursorVars, pc, image, writeVars, faults, histVars,
                    index_before, recVars, driverVars, uartVars, protoVars, mainVars >>

\* A store cycle that halts before any write: no image or an empty one
\* ("halted"), or no capacity ("rejected"); both return None.
StoreReject(img) ==
    /\ pc = "main"
    /\ HasCursors
    /\ ~Accepts(img)
    /\ result' = IF img = NoImage \/ ImageSize(img) = 0 THEN "halted"
                 ELSE "rejected"
    /\ returned' = << >>
    /\ programs' = << >>
    /\ failed_phase' = "none"
    /\ index_before' = IndexRegion(flash)
    /\ UNCHANGED << flash, cursorVars, pc, image, writeVars, faults, histVars,
                    recVars, driverVars, uartVars, protoVars, mainVars >>

\* A store cycle that passes the checks and calls write_bytes for the blob.
StoreBegin(img) ==
    /\ pc = "main"
    /\ HasCursors
    /\ Accepts(img)
    /\ is_open
    /\ pc' = "data"
    /\ image' = img
    /\ wr_address' = next_data_addr
    /\ wr_data' = ImageBytes(img)
    /\ bytes_written' = 0
    /\ result' = "running"
    /\ programs' = << >>
    /\ failed_phase' = "none"
    /\ index_before' = IndexRegion(flash)
    /\ UNCHANGED returned
    /\ UNCHANGED << flash, cursorVars, faults, histVars, recVars, driverVars, uartVars, protoVars, mainVars >>

\* The write_bytes call of a store cycle has returned ok, after the page
\* programs of log: the rest of _store_image_to_flash and of
\* store_image_to_flash, and what run_main_loop does with the result.
WriteReturns(ok, log) ==
    LET outcome == AfterWrite(pc, ok)
    IN /\ failed_phase' = IF ok THEN failed_phase ELSE pc
       /\ CASE outcome = "index" ->
               \* line 186-195: build the entry and call write_bytes for it
               /\ pc' = "index"
               /\ wr_address' = next_index_addr
               /\ wr_data' = EntryFor(next_data_addr, ImageSize(image))
               /\ bytes_written' = 0
               /\ UNCHANGED << cursorVars, image, result, returned, stored, orphans >>
            [] outcome = "stored" ->
               \* line 199, main.py line 103-104: the cursors advance
               /\ pc' = "main"
               /\ next_index_addr' =
                    StoreReturn(next_index_addr, next_data_addr, ImageSize(image))[1]
               /\ next_data_addr' =
                    StoreReturn(next_index_addr, next_data_addr, ImageSize(image))[2]
               /\ result' = "stored"
               /\ returned' =
                    StoreReturn(next_index_addr, next_data_addr, ImageSize(image))
               /\ stored' = Append(stored, [slot |-> next_index_addr,
                               start |-> next_data_addr,
                               end |-> next_data_addr + ImageSize(image),
                               image |-> image, orphans |-> orphans])
               /\ Forget
               /\ UNCHANGED orphans
            [] OTHER ->
               \* FlashStorageError, None: the cursors stay
               /\ pc' = "main"
               /\ result' = "failed"
               /\ returned' = << >>
               /\ Abandon(log)
               /\ Forget
               /\ UNCHANGED cursorVars

\* One iteration of the write_bytes loop whose _write_page succeeds, and,
\* when it was the last one, what the caller does with the True it returns.
WritePage ==
    /\ pc \in { "data", "index", "write" }
    /\ bytes_written < Len(wr_data)
    /\ LET n == ChunkSize(wr_address, Len(wr_data), bytes_written)
           log == Append(programs, [address |-> CurrentAddress, data |-> CurrentChunk])
       IN /\ flash' = PageProgram(flash, CurrentAddress, CurrentChunk)
          /\ programs' = log
          /\ issued' = IF pc = "index" THEN issued \cup { IssuedRecord } ELSE issued
          /\ IF bytes_written + n < Len(wr_data)
             THEN /\ bytes_written' = bytes_written + n
                  /\ UNCHANGED << cursorVars, pc, image, wr_address, wr_data,
                                  result, returned, failed_phase, stored, orphans >>
             ELSE IF pc = "write"
                  THEN /\ pc' = "returned"
                       /\ result' = "True"
                       /\ bytes_written' = bytes_written + n
                       /\ UNCHANGED << cursorVars, image, wr_address, wr_data,
                                       returned, failed_phase, stored, orphans >>
                  ELSE WriteReturns(TRUE, log)
    /\ UNCHANGED << faults, index_before, recVars, driverVars, uartVars, protoVars, mainVars >>

\* One iteration of the write_bytes loop whose _write_page raises: write_bytes
\* logs the offset and returns False.  landed tells whether the program
\* command reached the chip before the exception (busy-wait timeout) or not
\* (transport exception).
WritePageFails(landed) ==
    /\ pc \in { "data", "index", "write" }
    /\ bytes_written < Len(wr_data)
    /\ faults < MaxFaults
    /\ faults' = faults + 1
    /\ LET log == IF landed
                  THEN Append(programs, [address |-> CurrentAddress, data |-> CurrentChunk])
                  ELSE programs
       IN /\ flash' = IF landed THEN PageProgram(flash, CurrentAddress, CurrentChunk)
                      ELSE flash
          /\ programs' = log
          /\ issued' = IF pc = "index" /\ landed
                       THEN issued \cup { IssuedRecord } ELSE issued
          /\ IF pc = "write"
             THEN /\ pc' = "returned"
                  /\ result' = "False"
                  /\ UNCHANGED << cursorVars, image, writeVars, returned,
                                  failed_phase, stored, orphans >>
             ELSE WriteReturns(FALSE, log)
    /\ UNCHANGED << index_before, recVars, driverVars, uartVars, protoVars, mainVars >>

\* The process stops at any point and is started again: main() rescans the
\* index for its cursors.  Stopping inside a store cycle abandons the cycle.
Restart ==
    /\ pc \in { "main", "data", "index" }
    /\ IF pc = "main"
       THEN UNCHANGED << faults, result, histVars, image, writeVars >>
       ELSE /\ faults < MaxFaults
            /\ Forget
            /\ faults' = faults + 1
            /\ result' = "crashed"
            /\ Abandon(programs)
            /\ issued' = issued
    /\ pc' = "main"
    /\ next_index_addr' = find_next_available_address(flash)[1]
    /\ next_data_addr' = find_next_available_address(flash)[2]
    /\ UNCHANGED << flash, programs, returned, failed_phase, index_before,
                    recVars, driverVars, uartVars, protoVars, mainVars >>

\* ----------------------------------------------------------------- recovery
ReadFaults ==
    { NoReadFault } \cup
    [entry : 1..IndexSlots, read : 1..2, deliver : { 0, 1 }]

Delivered(fault, image_number, read_no, requested) ==
    IF fault.entry = image_number /\ fault.read = read_no
    THEN Min(fault.deliver, requested)
    ELSE requested

\* recover_images.is_index_entry_empty: only the first 4 bytes are compared
rec_is_index_entry_empty(entry_bytes) ==
    Take(entry_bytes, ADDRESS_SIZE) = Erased(ADDRESS_SIZE)

RECURSIVE ReadLoop(_, _, _, _, _, _, _, _, _)
\* The while loop of read_image_data_in_chunks; ok = FALSE is its None.
\* reads lists the read_bytes calls it made, as (address, length), and got
\* is the number of bytes they delivered in total.
ReadLoop(f, start_addr, total_size, bytes_read, image_data, reads, read_no, image_number, fault) ==
    IF ~(bytes_read < total_size)
    THEN [ok |-> TRUE, data |-> image_data, reads |-> reads, got |-> bytes_read]
    ELSE LET bytes_to_read == Min(READ_CHUNK_SIZE, total_size - bytes_read)
             chunk_address == start_addr + bytes_read
             chunk_data == Take(read_bytes(f, chunk_address, bytes_to_read),
                                Delivered(fault, image_number, read_no, bytes_to_read))
             asked == Append(reads, << chunk_address, bytes_to_read >>)
         IN IF Len(chunk_data) = 0
            THEN [ok |-> FALSE, data |-> << >>, reads |-> asked, got |-> bytes_read]
            ELSE ReadLoop(f, start_addr, total_size, bytes_read + Len(chunk_data),
                          image_data \o chunk_data, asked, read_no + 1,
                          image_number, fault)

\* A variant of read_image_data_in_chunks that asks for the whole image in
\* one read_bytes call.
read_image_data_whole(f, start_addr, total_size, image_number, fault) ==
    LET chunk_data == Take(read_bytes(f, start_addr, total_size),
                           Delivered(fault, image_number, 1, total_size))
    IN [ok |-> Len(chunk_data) > 0, data |-> chunk_data,
        reads |-> << << start_addr, total_size >> >>, got |-> Len(chunk_data)]

read_image_data_in_chunks(f, start_addr, total_size, image_number, fault) ==
    ReadLoop(f, start_addr, total_size, 0, << >>, << >>, 1, image_number, fault)

\* A variant of recover_single_image that saves whatever the chunked read
\* accumulated, without the None test and the size test.
recover_single_image_unverified(f, image_number, start_addr, end_addr, fault) ==
    LET total_size == end_addr - start_addr
        image_data == read_image_data_in_chunks(f, start_addr, total_size,
                                                image_number, fault)
    IN [ok |-> TRUE, data |-> image_data.data, reads |-> image_data.reads,
        got |-> image_data.got]

\* A variant of recover_single_image whose size test lets a size of zero
\* through.
recover_single_image_accepts_empty(f, image_number, start_addr, end_addr, fault) ==
    LET total_size == end_addr - start_addr
    IN IF total_size < 0
       THEN [ok |-> FALSE, data |-> << >>, reads |-> << >>, got |-> 0]
       ELSE LET image_data ==
                    read_image_data_in_chunks(f, start_addr, total_size,
                                              image_number, fault)
            IN IF ~image_data.ok \/ Len(image_data.data) /= total_size
               THEN [ok |-> FALSE, data |-> << >>, reads |-> image_data.reads,
                     got |-> image_data.got]
               ELSE [ok |-> TRUE, data |-> image_data.data,
                     reads |-> image_data.reads, got |-> image_data.got]

\* recover_single_image: ok, the bytes of the file it saved, the reads made
\* and the number of bytes they delivered
recover_single_image(f, image_number, start_addr, end_addr, fault) ==
    LET total_size == end_addr - start_addr
    IN IF total_size <= 0
       THEN [ok |-> FALSE, data |-> << >>, reads |-> << >>, got |-> 0]
       ELSE LET image_data ==
                    read_image_data_in_chunks(f, start_addr, total_size,
                                              image_number, fault)
            IN IF ~image_data.ok
               THEN [ok |-> FALSE, data |-> << >>, reads |-> image_data.reads,
                     got |-> image_data.got]
               ELSE IF Len(image_data.data) /= total_size
                    THEN [ok |-> FALSE, data |-> << >>, reads |-> image_data.reads,
                          got |-> image_data.got]
                    ELSE [ok |-> TRUE, data |-> image_data.data,
                          reads |-> image_data.reads, got |-> image_data.got]

RECURSIVE RecoverFrom(_, _, _, _)
\* The while loop of scan_and_recover_images; acc holds image_count,
\* recovered_count, the files saved, the entries attempted and, in calls,
\* every read_bytes call made so far as (address, length).
RecoverFrom(f, current_index_addr, acc, fault) ==
    IF current_index_addr > INDEX_END THEN acc
    ELSE LET entry_bytes == read_bytes(f, current_index_addr, INDEX_ENTRY_SIZE)
             entry_read == Append(acc.calls,
                                  << current_index_addr, INDEX_ENTRY_SIZE >>)
         IN IF rec_is_index_entry_empty(entry_bytes)
            THEN [acc EXCEPT !.calls = entry_read]
            ELSE LET e == parse_index_entry(entry_bytes)
                     image_count == acc.image_count + 1
                     r == recover_single_image(f, image_count, e[1], e[2], fault)
                 IN RecoverFrom(f, current_index_addr + INDEX_ENTRY_SIZE,
                        [image_count |-> image_count,
                         recovered_count |->
                             IF r.ok THEN acc.recovered_count + 1
                             ELSE acc.recovered_count,
                         files |-> IF r.ok
                                   THEN Append(acc.files,
                                            [number |-> image_count, data |-> r.data])
                                   ELSE acc.files,
                         tried |-> Append(acc.tried,
                                      [slot |-> current_index_addr, start |-> e[1],
                                       end |-> e[2], ok |-> r.ok,
                                       reads |-> r.reads, got |-> r.got]),
                         calls |-> entry_read \o r.reads],
                        fault)

scan_and_recover_images(f, fault) ==
    RecoverFrom(f, INDEX_1ST,
                [image_count |-> 0, recovered_count |-> 0, files |-> << >>,
                 tried |-> << >>, calls |-> << >>],
                fault)

\* One completed spi.xfer2 call: the bytes sent, and the status byte of the
\* reply when the transfer is a status read.
Transfer(bytes, status) == [cmd |-> bytes, status |-> status]

\* A variant of ReadTransfer that sends the Page Program opcode.
ReadTransferProgram(address, length) ==
    Transfer(<< CMD_PAGE_PROGRAM_4B >> \o ToBytesBig(address)
                 \o [i \in 1..length |-> 0], 0)

\* The transfer of one read_bytes call: Read Data, the address, and one
\* dummy byte per byte to read.
ReadTransfer(address, length) ==
    Transfer(<< CMD_READ_DATA_4B >> \o ToBytesBig(address)
                 \o [i \in 1..length |-> 0], 0)

\* The transfers of a list of read_bytes calls, in order.
ReadTransfers(calls) ==
    [i \in 1..Len(calls) |-> ReadTransfer(calls[i][1], calls[i][2])]

\* The offline recovery tool, run once the flight process has stopped and
\* the store is quiescent.
Recover(fault) ==
    /\ pc = "main"
    /\ LET r == scan_and_recover_images(flash, fault)
       IN /\ rec_files' = r.files
          /\ rec_counts' = << r.recovered_count, r.image_count >>
          /\ rec_tried' = r.tried
          /\ spi' = spi \o ReadTransfers(r.calls)
    /\ rec_fault' = fault
    /\ pc' = "recovered"
    /\ UNCHANGED << flash, cursorVars, image, writeVars, result, failed_phase,
                    index_before, programs, faults, histVars, is_open, step,
                    call, error, returned, uartVars, protoVars, mainVars >>

\* ------------------------------------------- the driver, transfer by transfer
\* ERASE_SIZES: opcode and sector size of an erase size in KB
ERASE_SIZES(size_kb) ==
    CASE size_kb = 4 -> << CMD_SECTOR_ERASE_4KB_4B, SECTOR_SIZE_4KB >>
      [] size_kb = 32 -> << CMD_BLOCK_ERASE_32KB_4B, SECTOR_SIZE_32KB >>
      [] size_kb = 64 -> << CMD_BLOCK_ERASE_64KB_4B, SECTOR_SIZE_64KB >>

\* The chip after an erase of the size-aligned block that holds address.
EraseBlock(f, address, size) ==
    LET aligned_address == (address \div size) * size
        kept == { a \in DOMAIN f : a < aligned_address \/ a >= aligned_address + size }
    IN [a \in kept |-> f[a]]

_address_to_bytes(address) == ToBytesBig(address)
_write_enable == Transfer(<< CMD_WRITE_ENABLE >>, 0)
StatusRead(status) == Transfer(<< CMD_READ_STATUS_REG1, 0 >>, status)
StatusValues == { 0, 1, 2 }
\* A variant of Busy that tests bit 1 of the status byte.
BusyBit1(status) == BitAnd(status, 2) /= 0

\* (status & STATUS_WIP_BIT) != 0
Busy(status) == BitAnd(status, STATUS_WIP_BIT) /= 0

\* Number of status reads at the end of the transfer log.
RECURSIVE TrailingPolls(_)
TrailingPolls(log) ==
    IF Len(log) = 0 \/ log[Len(log)].cmd[1] /= CMD_READ_STATUS_REG1 THEN 0
    ELSE 1 + TrailingPolls(SubSeq(log, 1, Len(log) - 1))

cycleVars == << cursorVars, image, returned, failed_phase, index_before,
                faults, histVars, recVars, uartVars, protoVars, mainVars >>

\* A driver call that raises to its caller before any transfer.
CallRaises(e) ==
    /\ result' = "raised"
    /\ error' = e
    /\ UNCHANGED << flash, pc, writeVars, programs, is_open, spi, step, call >>

\* A driver call that returns v without any transfer.
CallReturns(v) ==
    /\ result' = v
    /\ error' = "none"
    /\ UNCHANGED << flash, pc, writeVars, programs, is_open, spi, step, call >>

\* FlashMemory.close
Close ==
    /\ pc = "main"
    /\ is_open
    /\ is_open' = FALSE
    /\ UNCHANGED << flash, pc, writeVars, programs, result, spi, step, call,
                    error, cycleVars >>

\* FlashMemory.read_bytes; raises tells whether xfer2 raises
ReadBytesCall(address, length, raises) ==
    /\ pc = "main"
    /\ Len(spi) < MaxTransfers
    /\ IF ~is_open THEN CallRaises("not_open")
       ELSE IF length <= 0 THEN CallReturns("empty")
       ELSE IF raises THEN CallRaises("transport")
       ELSE /\ spi' = Append(spi, Transfer(<< CMD_READ_DATA_4B >>
                                 \o _address_to_bytes(address)
                                 \o [i \in 1..length |-> 0], 0))
            /\ result' = "data"
            /\ error' = "none"
            /\ UNCHANGED << flash, pc, writeVars, programs, is_open, step, call >>
    /\ UNCHANGED cycleVars

\* FlashMemory.write_bytes up to its loop
WriteBytesCall(address, data) ==
    /\ pc = "main"
    /\ Len(spi) < MaxTransfers
    /\ IF ~is_open THEN CallRaises("not_open")
       ELSE IF Len(data) = 0 THEN CallReturns("False")
       ELSE /\ pc' = "program"
            /\ step' = "enable"
            /\ wr_address' = address
            /\ wr_data' = data
            /\ bytes_written' = 0
            /\ programs' = << >>
            /\ result' = "running"
            /\ error' = "none"
            /\ UNCHANGED << flash, is_open, spi, call >>
    /\ UNCHANGED cycleVars

\* FlashMemory.erase_sector up to its try block
EraseSectorCall(address, size_kb) ==
    /\ pc = "main"
    /\ Len(spi) < MaxTransfers
    /\ IF ~is_open THEN CallRaises("not_open")
       ELSE IF size_kb \notin { 4, 32, 64 } THEN CallRaises("invalid")
       ELSE /\ pc' = "erase"
            /\ step' = "enable"
            /\ call' = [cmd |-> ERASE_SIZES(size_kb)[1], address |-> address,
                        size |-> ERASE_SIZES(size_kb)[2]]
            /\ result' = "running"
            /\ error' = "none"
            /\ UNCHANGED << flash, writeVars, programs, is_open, spi >>
    /\ UNCHANGED cycleVars

\* FlashMemory.erase_die up to its try block
EraseDieCall(die_number) ==
    /\ pc = "main"
    /\ Len(spi) < MaxTransfers
    /\ IF ~is_open THEN CallRaises("not_open")
       ELSE IF die_number \notin { 0, 1 } THEN CallRaises("invalid")
       ELSE /\ pc' = "erase"
            /\ step' = "enable"
            /\ call' = [cmd |-> CMD_DIE_ERASE_4B,
                        address |-> die_number * DIE_SIZE, size |-> DIE_SIZE]
            /\ result' = "running"
            /\ error' = "none"
            /\ UNCHANGED << flash, writeVars, programs, is_open, spi >>
    /\ UNCHANGED cycleVars

\* _write_enable: the Write Enable transfer of a chunk or of an erase
XferWriteEnable ==
    /\ pc \in { "program", "erase" }
    /\ step = "enable"
    /\ spi' = Append(spi, _write_enable)
    /\ step' = "command"
    /\ UNCHANGED << flash, pc, writeVars, programs, result, is_open, call,
                    error, cycleVars >>

\* The transfer of the Page Program or erase command; the chip acts on it.
XferCommand ==
    /\ pc \in { "program", "erase" }
    /\ step = "command"
    /\ IF pc = "program"
       THEN /\ spi' = Append(spi, Transfer(<< CMD_PAGE_PROGRAM_4B >>
                                 \o _address_to_bytes(CurrentAddress)
                                 \o CurrentChunk, 0))
            /\ flash' = PageProgram(flash, CurrentAddress, CurrentChunk)
            /\ programs' = Append(programs, [address |-> CurrentAddress,
                                             data |-> CurrentChunk])
       ELSE /\ spi' = Append(spi, Transfer(<< call.cmd >>
                                 \o _address_to_bytes(call.address), 0))
            /\ flash' = EraseBlock(flash, call.address, call.size)
            /\ UNCHANGED programs
    /\ step' = "poll"
    /\ UNCHANGED << pc, writeVars, result, is_open, call, error, cycleVars >>

\* A variant of CallEnds without the except clause: the exception leaves
\* the call.
CallEndsRaising(v, e) ==
    /\ pc' = "main"
    /\ step' = "none"
    /\ call' = NoCall
    /\ result' = IF e = "none" THEN v ELSE "raised"
    /\ error' = e

\* The driver call in progress ends: it returns v, and e is the exception
\* its except clause caught ("none" when it returns True).
CallEnds(v, e) ==
    /\ pc' = "main"
    /\ step' = "none"
    /\ call' = NoCall
    /\ result' = v
    /\ error' = e

\* A variant of XferPoll whose busy-wait has no timeout: it polls for as
\* long as the chip reports busy.
XferPollForever(status, timed_out) ==
    /\ pc \in { "program", "erase" }
    /\ step = "poll"
    /\ TrailingPolls(spi) < MaxPolls
    /\ spi' = Append(spi, StatusRead(status))
    /\ IF ~Busy(status)
       THEN /\ ~timed_out
            /\ IF pc = "program" /\ bytes_written
                    + ChunkSize(wr_address, Len(wr_data), bytes_written) < Len(wr_data)
               THEN /\ bytes_written' = bytes_written
                         + ChunkSize(wr_address, Len(wr_data), bytes_written)
                    /\ step' = "enable"
                    /\ UNCHANGED << pc, wr_address, wr_data, result, call, error >>
               ELSE /\ CallEnds("True", "none")
                    /\ bytes_written' = Len(wr_data)
                    /\ UNCHANGED << wr_address, wr_data >>
       ELSE UNCHANGED << pc, step, writeVars, result, call, error >>
    /\ UNCHANGED << flash, programs, is_open, cycleVars >>

\* One iteration of _wait_for_write_complete: a status read, the test of the
\* WIP bit and, when the chip is busy, the test of the elapsed time.
XferPoll(status, timed_out) ==
    /\ pc \in { "program", "erase" }
    /\ step = "poll"
    /\ TrailingPolls(spi) < MaxPolls
    /\ spi' = Append(spi, StatusRead(status))
    /\ IF ~Busy(status)
       THEN /\ ~timed_out
            /\ IF pc = "program" /\ bytes_written
                    + ChunkSize(wr_address, Len(wr_data), bytes_written) < Len(wr_data)
               THEN /\ bytes_written' = bytes_written
                         + ChunkSize(wr_address, Len(wr_data), bytes_written)
                    /\ step' = "enable"
                    /\ UNCHANGED << pc, wr_address, wr_data, result, call, error >>
               ELSE /\ CallEnds("True", "none")
                    /\ bytes_written' = Len(wr_data)
                    /\ UNCHANGED << wr_address, wr_data >>
       ELSE IF timed_out \/ TrailingPolls(spi) + 1 >= MaxPolls
            THEN \* FlashMemoryError, caught by the caller's except clause
                 /\ CallEnds("False", "timeout")
                 /\ UNCHANGED writeVars
            ELSE UNCHANGED << pc, step, writeVars, result, call, error >>
    /\ UNCHANGED << flash, programs, is_open, cycleVars >>

\* spi.xfer2 raises inside the try block of write_bytes or of an erase.
XferRaises ==
    /\ pc \in { "program", "erase" }
    /\ step \in { "enable", "command", "poll" }
    /\ CallEnds("False", "transport")
    /\ UNCHANGED << flash, writeVars, programs, is_open, spi, cycleVars >>

\* A variant of StoreOnClosedDevice in which store_image_to_flash catches
\* the exception like a write failure and returns None.
StoreOnClosedDeviceCaught(img) ==
    /\ pc = "main"
    /\ HasCursors
    /\ Accepts(img)
    /\ ~is_open
    /\ result' = "failed"
    /\ error' = "not_open"
    /\ UNCHANGED << flash, pc, writeVars, programs, is_open, spi, step, call,
                    cycleVars >>

\* A store cycle on a device that is not open: write_bytes raises
\* FlashMemoryError, which store_image_to_flash does not catch; it leaves
\* run_main_loop and ends the process in main.
StoreOnClosedDevice(img) ==
    /\ pc = "main"
    /\ HasCursors
    /\ Accepts(img)
    /\ ~is_open
    /\ pc' = "exited"
    /\ result' = "raised"
    /\ error' = "not_open"
    /\ UNCHANGED << flash, writeVars, programs, is_open, spi, step, call,
                    cycleVars >>

\* ----------------------------------------------------------- specifications
\* The flight process with a mock directory of two images.
Next ==
    \/ LoopSkip
    \/ \E img \in MockImages \cup { NoImage } : StoreReject(img)
    \/ \E img \in MockImages : StoreBegin(img)
    \/ WritePage
    \/ \E landed \in BOOLEAN : WritePageFails(landed)
    \/ Restart

Spec == Init /\ [][Next]_vars

\* The example scenario of the specification: the captures return the images
\* of 100, 4096 and 50 bytes in that order (and round again), every chunk
\* program succeeds, the process may be restarted between two cycles, and
\* the recovery tool is run at some point, over a transport that may deliver
\* a short read.
ScenarioImage == ScenarioOrder[(Len(stored) % Len(ScenarioOrder)) + 1]

RestartBetweenCycles == pc = "main" /\ Restart

NextScenario ==
    \/ LoopSkip
    \/ StoreReject(ScenarioImage)
    \/ StoreBegin(ScenarioImage)
    \/ WritePage
    \/ RestartBetweenCycles
    \/ \E fault \in ReadFaults : Recover(fault)

SpecScenario == Init /\ [][NextScenario]_vars

\* The flight process from erased flash whose first capture is the image
\* of 4096 bytes and whose later captures are the image of 100 bytes, with
\* write faults and restarts between two cycles.
RetryImage == IF Len(stored) = 0 /\ faults = 0 THEN "s4096" ELSE "s100"

NextRetry ==
    \/ LoopSkip
    \/ StoreReject(NoImage)
    \/ StoreBegin(RetryImage)
    \/ WritePage
    \/ \E landed \in BOOLEAN : WritePageFails(landed)
    \/ RestartBetweenCycles

SpecRetry == Init /\ [][NextRetry]_vars

\* FlashMemory.write_bytes alone, on an open device over erased flash, for
\* a set of start addresses and buffer lengths.
WriteOffsets == { 0, 1, 56, 128, 200, 255 }
WriteLengths == { 1, 2, 56, 57, 255, 256, 257, 300, 512, 513 }
Pattern(n) == [i \in 1..n |-> (7 * i) % 251]

InitWrite ==
    /\ flash = << >>
    /\ next_index_addr = None
    /\ next_data_addr = None
    /\ pc = "write"
    /\ image = NoImage
    /\ wr_address \in { DATA_1ST + off : off \in WriteOffsets }
    /\ wr_data \in { Pattern(n) : n \in WriteLengths }
    /\ bytes_written = 0
    /\ result = "running"
    /\ failed_phase = "none"
    /\ index_before = IndexRegion(flash)
    /\ programs = << >>
    /\ faults = 0
    /\ stored = << >>
    /\ issued = {}
    /\ orphans = {}
    /\ rec_files = << >>
    /\ rec_counts = << 0, 0 >>
    /\ rec_tried = << >>
    /\ rec_fault = NoReadFault
    /\ DriverIdle
    /\ UartIdle
    /\ ProtoIdle
    /\ MainIdle
    /\ returned = << >>

NextWrite ==
    \/ WritePage
    \/ \E landed \in BOOLEAN : WritePageFails(landed)

SpecWrite == InitWrite /\ [][NextWrite]_vars

\* The index write of _store_image_to_flash alone, for every slot of the
\* chip's index region as config.py lays it out (it ends where the data
\* region begins): the slots are the index cursors that successive stores
\* return, starting at INDEX_1ST.
SlotStep == StoreReturn(INDEX_1ST, DATA_1ST, 1)[1] - INDEX_1ST
IndexCursors ==
    { a \in INDEX_1ST..(DATA_1ST - INDEX_ENTRY_SIZE) : (a - INDEX_1ST) % SlotStep = 0 }

InitEntry ==
    /\ flash = << >>
    /\ next_index_addr \in IndexCursors
    /\ next_data_addr = DATA_1ST
    /\ pc = "index"
    /\ image \in MockImages
    /\ wr_address = next_index_addr
    /\ wr_data = EntryFor(next_data_addr, ImageSize(image))
    /\ bytes_written = 0
    /\ result = "running"
    /\ failed_phase = "none"
    /\ index_before = IndexRegion(flash)
    /\ programs = << >>
    /\ faults = 0
    /\ stored = << >>
    /\ issued = {}
    /\ orphans = {}
    /\ rec_files = << >>
    /\ rec_counts = << 0, 0 >>
    /\ rec_tried = << >>
    /\ rec_fault = NoReadFault
    /\ DriverIdle
    /\ UartIdle
    /\ ProtoIdle
    /\ MainIdle
    /\ returned = << >>

NextEntry ==
    \/ WritePage
    \/ \E landed \in BOOLEAN : WritePageFails(landed)

SpecEntry == InitEntry /\ [][NextEntry]_vars

\* The two index scans alone, on a chip whose index region holds any mix of
\* erased slots, entries of a 3-byte blob, entries whose end lies before
\* their start, entries whose end equals their start, and slots whose start
\* half is still erased while the end half is programmed; the data region is
\* erased.
IndexEntryKinds ==
    { Erased(INDEX_ENTRY_SIZE),
      create_index_entry(DATA_1ST, DATA_1ST + 3),
      create_index_entry(DATA_1ST + 5, DATA_1ST),
      create_index_entry(DATA_1ST + 3, DATA_1ST + 3),
      Erased(ADDRESS_SIZE) \o ToBytesBig(DATA_1ST + 8) }

IndexImage(entries) ==
    [a \in INDEX_1ST..INDEX_END |->
        entries[((a - INDEX_1ST) \div INDEX_ENTRY_SIZE) + 1]
               [((a - INDEX_1ST) % INDEX_ENTRY_SIZE) + 1]]

InitIndex ==
    /\ flash \in { IndexImage(entries) : entries \in [1..IndexSlots -> IndexEntryKinds] }
    /\ next_index_addr = None
    /\ next_data_addr = None
    /\ pc = "main"
    /\ image = NoImage
    /\ wr_address = 0
    /\ wr_data = << >>
    /\ bytes_written = 0
    /\ result = "none"
    /\ failed_phase = "none"
    /\ index_before = IndexRegion(flash)
    /\ programs = << >>
    /\ faults = 0
    /\ stored = << >>
    /\ issued = {}
    /\ orphans = {}
    /\ rec_files = << >>
    /\ rec_counts = << 0, 0 >>
    /\ rec_tried = << >>
    /\ rec_fault = NoReadFault
    /\ DriverIdle
    /\ UartIdle
    /\ ProtoIdle
    /\ MainIdle
    /\ returned = << >>

NextIndex ==
    \/ RestartBetweenCycles
    \/ \E fault \in ReadFaults : Recover(fault)

SpecIndex == InitIndex /\ [][NextIndex]_vars

\* The driver alone, followed transfer by transfer: calls of its methods on
\* an open or closed device, and a store cycle on a closed one.
DriverWrites ==
    { << DATA_1ST + 200, Pattern(300) >>, << INDEX_1ST, Pattern(8) >>,
      << DATA_1ST, << >> >> }
DriverReads == { << DATA_1ST + 200, 4 >>, << INDEX_1ST, 0 >> }
DriverErases == { << 291, size_kb >> : size_kb \in { 4, 8, 32, 64 } }
DriverDies == { 0, 1, 2 }

NextDriver ==
    \/ Close
    \/ \E r \in DriverReads, raises \in BOOLEAN : ReadBytesCall(r[1], r[2], raises)
    \/ \E w \in DriverWrites : WriteBytesCall(w[1], w[2])
    \/ \E x \in DriverErases : EraseSectorCall(x[1], x[2])
    \/ \E die_number \in DriverDies : EraseDieCall(die_number)
    \/ XferWriteEnable
    \/ XferCommand
    \/ \E status \in StatusValues, timed_out \in BOOLEAN : XferPoll(status, timed_out)
    \/ XferRaises
    \/ \E img \in MockImages : StoreOnClosedDevice(img)

SpecDriver == Init /\ [][NextDriver]_vars

\* write_bytes alone, transfer by transfer, on the two calls of a store
\* cycle (a 4-byte blob that straddles a page end, and its index entry),
\* under the scheduling of the flight process: it runs on the main thread, which is never suspended for
\* good, so a call that has a next transfer makes it; each iteration of the
\* busy-wait sleeps WIP_POLL_INTERVAL, so the elapsed time test (line 150)
\* fires after a bounded number of polls, MaxPolls in this model.
ProgramWrites ==
    { << DATA_1ST + PAGE_SIZE - 2, Pattern(4) >>,
      << INDEX_1ST, EntryFor(DATA_1ST + PAGE_SIZE - 2, 4) >> }

NextProgram ==
    \/ \E w \in ProgramWrites : WriteBytesCall(w[1], w[2])
    \/ XferWriteEnable
    \/ XferCommand
    \/ \E status \in StatusValues, timed_out \in BOOLEAN : XferPoll(status, timed_out)
    \/ XferRaises

\* The next transfer of the call in progress.
NextTransfer ==
    \/ XferWriteEnable
    \/ XferCommand
    \/ \E status \in StatusValues, timed_out \in BOOLEAN : XferPoll(status, timed_out)

SpecProgramFair == Init /\ [][NextProgram]_vars /\ WF_vars(NextTransfer)

\* validate_storage_capacity alone, on arguments around its two limits.
CapacityDataAddrs ==
    { 0, DATA_1ST, DATA_END - 4096, DATA_END - 120, DATA_END - 119,
      DATA_END - 20, DATA_END - 19, DATA_END - 1, DATA_END, DATA_END + 1 }
CapacityIndexAddrs ==
    { 0, INDEX_END - 7, INDEX_END - 1, INDEX_END, INDEX_END + 1, INDEX_END + 8 }
CapacityImages == MockImages \cup { "s100", "s4096", "s50", NoImage }

\* Everything but the chip, the cursors, pc, image and result is at rest.
AtRest ==
    /\ wr_address = 0
    /\ wr_data = << >>
    /\ bytes_written = 0
    /\ returned = << >>
    /\ failed_phase = "none"
    /\ index_before = IndexRegion(flash)
    /\ programs = << >>
    /\ faults = 0
    /\ stored = << >>
    /\ issued = {}
    /\ orphans = {}
    /\ rec_files = << >>
    /\ rec_counts = << 0, 0 >>
    /\ rec_tried = << >>
    /\ rec_fault = NoReadFault
    /\ DriverIdle
    /\ UartIdle
    /\ ProtoIdle
    /\ MainIdle

InitValidate ==
    /\ flash = << >>
    /\ next_data_addr \in CapacityDataAddrs
    /\ next_index_addr \in CapacityIndexAddrs
    /\ image \in CapacityImages
    /\ pc = "validate"
    /\ result = "none"
    /\ AtRest

ValidateCall ==
    /\ pc = "validate"
    /\ pc' = "returned"
    /\ result' = IF validate_storage_capacity(next_data_addr, ImageSize(image),
                                              next_index_addr)
                 THEN "True" ELSE "False"
    /\ UNCHANGED << flash, cursorVars, image, writeVars, returned, failed_phase,
                    index_before, programs, faults, histVars, recVars,
                    driverVars, uartVars, protoVars, mainVars >>

SpecValidate == InitValidate /\ [][ValidateCall]_vars

\* ------------------------------------------------- uart.py: the listener
\* The bytes the wire may deliver.
WireBytes == { 62, 10 }

Alive(t) == threads[t].at /= "done"
AliveThreads == { t \in 1..Len(threads) : Alive(t) }

\* What no call into uart.py touches.
nonUartVars ==
    << flash, cursorVars, pc, image, writeVars, result, returned, failed_phase,
       index_before, programs, faults, histVars, recVars, driverVars,
       protoVars, mainVars >>

\* is_running()
is_running == _is_running

\* command_handler.handle_status, line 94: the UART part of the report
handle_status_uart == IF is_running THEN "OK" ELSE "STOPPED"

\* The module state of uart.py as one record.
UartModule ==
    [is_running |-> _is_running, serial_port |-> _serial_port,
     listener_thread |-> _listener_thread, ports |-> ports,
     threads |-> threads]

\* A variant of stop_listener that keeps the reference to the closed port.
stop_listener_keeps_port(m, joined, closes) ==
    IF ~m.is_running /\ m.serial_port = 0 THEN m
    ELSE LET t == m.listener_thread
             p == m.serial_port
             finished == t /= 0 /\ m.threads[t].at /= "done" /\ joined
         IN [is_running |-> FALSE,
             serial_port |-> p,
             listener_thread |-> 0,
             ports |-> IF p /= 0 /\ m.ports[p] /\ closes
                       THEN [m.ports EXCEPT ![p] = FALSE] ELSE m.ports,
             threads |-> IF finished
                         THEN [m.threads EXCEPT ![t].at = "done"]
                         ELSE m.threads]

\* stop_listener, lines 272-297, on the module state m.  joined tells
\* whether the thread ended within the join timeout, closes whether
\* _serial_port.close() went through (its exception is caught and logged).
stop_listener(m, joined, closes) ==
    IF ~m.is_running /\ m.serial_port = 0 THEN m
    ELSE LET t == m.listener_thread
             p == m.serial_port
             finished == t /= 0 /\ m.threads[t].at /= "done" /\ joined
         IN [is_running |-> FALSE,
             serial_port |-> 0,
             listener_thread |-> 0,
             ports |-> IF p /= 0 /\ m.ports[p] /\ closes
                       THEN [m.ports EXCEPT ![p] = FALSE] ELSE m.ports,
             threads |-> IF finished
                         THEN [m.threads EXCEPT ![t].at = "done"]
                         ELSE m.threads]

SetUartModule(m) ==
    /\ _is_running' = m.is_running
    /\ _serial_port' = m.serial_port
    /\ _listener_thread' = m.listener_thread
    /\ ports' = m.ports
    /\ threads' = m.threads

\* A call of stop_listener.
StopListener(joined, closes) ==
    /\ SetUartModule(stop_listener(UartModule, joined, closes))
    /\ uart_call' = [name |-> "stop_listener", raised |-> "none"]
    /\ UNCHANGED << _data_queue, nonUartVars >>

\* A call of start_listener; opens tells whether serial.Serial(...) succeeds.
StartListener(opens) ==
    /\ Len(ports) < MaxStarts
    /\ IF _is_running \/ ~opens
       THEN /\ uart_call' = [name |-> "start_listener", raised |-> "SerialError"]
            /\ UNCHANGED << _is_running, _serial_port, _listener_thread,
                            _data_queue, ports, threads >>
       ELSE /\ ports' = Append(ports, TRUE)
            /\ _serial_port' = Len(ports) + 1
            /\ _data_queue' = << >>
            /\ _is_running' = TRUE
            /\ threads' = Append(threads, [at |-> "check", port |-> 0])
            /\ _listener_thread' = Len(threads) + 1
            /\ uart_call' = [name |-> "start_listener", raised |-> "none"]
    /\ UNCHANGED nonUartVars

\* _serial_listener, line 111: the loop test and the call of
\* _serial_port.read(1), which blocks on the port the global names now.
ListenerCheck(t) ==
    /\ t \in AliveThreads
    /\ threads[t].at = "check"
    /\ threads' = IF _is_running /\ _serial_port /= 0
                  THEN [threads EXCEPT ![t] = [at |-> "read", port |-> _serial_port]]
                  ELSE [threads EXCEPT ![t].at = "done"]
    /\ UNCHANGED << _is_running, _serial_port, _listener_thread, _data_queue,
                    ports, uart_call, nonUartVars >>

\* _serial_listener, lines 113-126: read(1) returns a byte, returns nothing
\* (timeout, or the port was closed under it), or raises.
ListenerRead(t, incoming_byte, raises) ==
    /\ t \in AliveThreads
    /\ threads[t].at = "read"
    /\ incoming_byte /= << >> => ports[threads[t].port]
    /\ IF raises
       THEN /\ threads' = [threads EXCEPT ![t].at = "done"]
            /\ UNCHANGED _data_queue
       ELSE /\ threads' = [threads EXCEPT ![t].at = "check"]
            /\ IF incoming_byte /= << >> /\ _is_running
               THEN /\ Len(_data_queue) < MaxQueue
                    /\ _data_queue' = Append(_data_queue, incoming_byte)
               ELSE UNCHANGED _data_queue
    /\ UNCHANGED << _is_running, _serial_port, _listener_thread, ports,
                    uart_call, nonUartVars >>

\* get_data(): one item off the queue (None when it is empty changes nothing)
GetData ==
    /\ _data_queue /= << >>
    /\ _data_queue' = Tail(_data_queue)
    /\ uart_call' = [name |-> "get_data", raised |-> "none"]
    /\ UNCHANGED << _is_running, _serial_port, _listener_thread, ports,
                    threads, nonUartVars >>

NextUart ==
    \/ \E opens \in BOOLEAN : StartListener(opens)
    \/ \E joined, closes \in BOOLEAN : StopListener(joined, closes)
    \/ \E t \in 1..Len(threads) : ListenerCheck(t)
    \/ \E t \in 1..Len(threads), b \in WireBytes, raises \in BOOLEAN :
          \/ ListenerRead(t, << b >>, raises)
          \/ ListenerRead(t, << >>, raises)
    \/ GetData

SpecUart == Init /\ [][NextUart]_vars

\* ------------------------------------------------------ uart_protocol.py
\* The keys of command_handler.COMMAND_MAP.
COMMAND_MAP == { POWEROFF, REBOOT, STATUS }

\* What compiling uart_protocol.py yields.  Line 106 is a simple statement
\* at 12 columns and line 107 starts at 16 columns, so the compiler stops
\* with IndentationError (unexpected indent) and every import of the module
\* raises it: main.py line 11, test_uart_protocol.py line 15, and the
\* module run as a script.
CompileUartProtocol == "IndentationError"

RECURSIVE PullLoop(_, _, _)
\* The for loop of pull_frame: at most n more items leave the queue.
PullLoop(buf, queue, n) ==
    IF n = 0 \/ queue = << >> THEN [buffer |-> buf, queue |-> queue]
    ELSE PullLoop(buf \o Head(queue), Tail(queue), n - 1)

pull_frame(buf, queue) == PullLoop(buf, queue, MAXIMUM_BUFFER_SIZE)

\* UARTProtocol.nack for BAD_FRAME and for INVALID_CHECKSUM
nack(error_name) ==
    IF error_name = "BAD_FRAME" THEN << HEADER, 0, 0, 0, 0, STOP_BYTE >>
    ELSE IF error_name = "INVALID_CHECKSUM"
    THEN << HEADER, NACK_INVALID_FIELD_VALUE, 0, NACK_INVALID_FIELD_VALUE,
            NACK_INVALID_FIELD_VALUE, STOP_BYTE >>
    ELSE << >>

\* The text of validate_and_extract_frame, lines 81-117, with lines 107-110
\* read at the depth of line 106: the frame returned (<< >> for None), the
\* buffer left, and the frames handed to uart.send_data.
validate_and_extract_frame(buf) ==
    IF Len(buf) < MINIMUM_BUFFER_SIZE \/ buf[HEADER_IDX + 1] /= HEADER
    THEN IF buf /= << >>
         THEN [frame |-> << >>, buffer |-> << >>, sent |-> << nack("BAD_FRAME") >>]
         ELSE [frame |-> << >>, buffer |-> buf, sent |-> << >>]
    ELSE LET expected_length == buf[DATA_LENGTH_IDX + 1] + FRAME_OVERHEAD
         IN IF Len(buf) < expected_length
            THEN [frame |-> << >>, buffer |-> buf, sent |-> << >>]
            ELSE IF buf[expected_length] /= STOP_BYTE
            THEN [frame |-> << >>, buffer |-> << >>,
                  sent |-> << nack("BAD_FRAME") >>]
            ELSE [frame |-> SubSeq(buf, 1, expected_length),
                  buffer |-> SubSeq(buf, expected_length + 1, Len(buf)),
                  sent |-> << >>]

\* The text of classify_frame, lines 130-145.
classify_frame(f) ==
    IF Len(f) > MINIMUM_BUFFER_SIZE THEN "COMMAND"
    ELSE IF f = << 62, 255, 0, 255, 255, 10 >> THEN "NACK_CHECKSUM"
    ELSE IF f = << 62, 0, 0, 0, 0, 10 >> THEN "NACK_FORMAT"
    ELSE IF f[CMD_IDX + 1] \in COMMAND_MAP THEN "COMMAND"
    ELSE "ACK"

\* Frames as the PIC may send them: header, command, length, payload, two
\* CRC bytes, stop byte.
Payloads == { << >>, << 171, 205 >>, [i \in 1..39 |-> 0], [i \in 1..40 |-> 0] }
MakeFrame(cmd, payload, crc, stop) ==
    << HEADER, cmd, Len(payload) >> \o payload \o crc \o << stop >>
ProtocolFrames ==
    { MakeFrame(cmd, payload, crc, STOP_BYTE) :
        cmd \in { 0, 1, 2, STATUS, 153, 255 }, payload \in Payloads,
        crc \in { << 0, 0 >>, << 86, 120 >>, << 255, 255 >> } }
\* What the receive queue may hold when the protocol is asked to parse: a
\* frame, possibly with bytes of the next one behind it, one byte per item.
QueueImages ==
    { [i \in 1..Len(bytes) |-> << bytes[i] >>] :
        bytes \in { f \o more : f \in ProtocolFrames,
                                more \in { << >>, << HEADER >>, << 7, HEADER >> } } }

RECURSIVE Flatten(_)
Flatten(queue) ==
    IF queue = << >> THEN << >> ELSE Head(queue) \o Flatten(Tail(queue))

\* A caller that has the bytes of queue in uart's queue and runs pull_frame
\* and then validate_and_extract_frame, as test_uart_protocol.py lines 54-55
\* and main.py do, behind its import of uart_protocol.
ParseQueued(queue) ==
    /\ proto_call = "none"
    /\ proto_call' = "parse"
    /\ rx' = Flatten(queue)
    /\ IF CompileUartProtocol = "ok"
       THEN LET pulled == pull_frame(buffer, queue)
                v == validate_and_extract_frame(pulled.buffer)
            IN /\ uart_protocol' = "loaded"
               /\ _data_queue' = pulled.queue
               /\ buffer' = v.buffer
               /\ frame' = v.frame
               /\ sent' = sent \o v.sent
       ELSE /\ uart_protocol' = CompileUartProtocol
            /\ UNCHANGED << _data_queue, buffer, frame, sent >>
    /\ UNCHANGED << frame_type, first, handled, crc_match, _is_running, _serial_port, _listener_thread,
                    ports, threads, uart_call, flash, cursorVars, pc, image,
                    writeVars, result, returned, failed_phase, index_before,
                    programs, faults, histVars, recVars, driverVars, mainVars >>

\* A caller that passes the frame f to classify_frame, as the tests at lines
\* 61-110 do, behind its import of uart_protocol.
ClassifyFrame(f) ==
    /\ proto_call = "none"
    /\ proto_call' = "classify"
    /\ rx' = f
    /\ IF CompileUartProtocol = "ok"
       THEN /\ uart_protocol' = "loaded"
            /\ frame_type' = classify_frame(f)
       ELSE /\ uart_protocol' = CompileUartProtocol
            /\ UNCHANGED frame_type
    /\ UNCHANGED << buffer, frame, sent, first, handled, crc_match, uartVars, flash, cursorVars, pc, image,
                    writeVars, result, returned, failed_phase, index_before,
                    programs, faults, histVars, recVars, driverVars, mainVars >>

NextProtocol ==
    \/ \E queue \in QueueImages : ParseQueued(queue)
    \/ \E f \in ProtocolFrames : ClassifyFrame(f)

SpecProtocol == Init /\ [][NextProtocol]_vars

\* The queue items of a run of bytes, one byte per item as the listener
\* enqueues them.
Items(bytes) == [i \in 1..Len(bytes) |-> << bytes[i] >>]

\* Buffers that hold no frame: nothing at all, a first byte that is not the
\* header (in buffers shorter than, as long as and longer than a frame),
\* and frames whose stop byte is wrong, alone or with more bytes behind.
MalformedBuffers ==
    { << >>, << 7 >>, << STOP_BYTE, HEADER, 1, 0 >>,
      << 0, 1, 0, 86, 120, STOP_BYTE >>,
      << 7 >> \o MakeFrame(STATUS, << 171, 205 >>, << 86, 120 >>, STOP_BYTE) }
    \cup { MakeFrame(cmd, payload, << 86, 120 >>, stop) \o more :
             cmd \in { 1, STATUS }, payload \in { << >>, << 171, 205 >> },
             stop \in { 0, HEADER },
             more \in { << >>, << STOP_BYTE >>,
                        MakeFrame(STATUS, << >>, << 86, 120 >>, STOP_BYTE) } }

\* UARTProtocol.ack, lines 171-182
ack(f) ==
    << HEADER, f[CMD_IDX + 1], 0, f[f[DATA_LENGTH_IDX + 1] + 4],
       f[f[DATA_LENGTH_IDX + 1] + 5], STOP_BYTE >>

\* The frames given to one pass of the frame handling of run_main_loop.
LoopFrames ==
    ProtocolFrames \cup
    { MakeFrame(cmd, << >>, << 86, 120 >>, STOP_BYTE) : cmd \in { POWEROFF, REBOOT } }

\* Lines 65-93 of run_main_loop, once, behind the import of uart_protocol,
\* with the frame f in the queue.  matches is the verdict of the CRC
\* comparison at line 151 (crc_16 is not among the sources, so the verdict
\* is an input); written tells whether uart.send_data returned True for the
\* response.  execute_command runs a handler when the command byte is a
\* key of COMMAND_MAP.
LoopFrame(f, matches, written) ==
    /\ proto_call = "none"
    /\ proto_call' = "loop"
    /\ rx' = f
    /\ IF CompileUartProtocol = "ok"
       THEN LET pulled == pull_frame(buffer, _data_queue \o Items(f))
                v == validate_and_extract_frame(pulled.buffer)
                type == IF v.frame = << >> THEN "none" ELSE classify_frame(v.frame)
                response == IF type /= "COMMAND" THEN << >>
                            ELSE IF matches THEN << ack(v.frame) >>
                            ELSE << nack("INVALID_CHECKSUM") >>
            IN /\ uart_protocol' = "loaded"
               /\ _data_queue' = pulled.queue
               /\ buffer' = v.buffer
               /\ frame' = v.frame
               /\ frame_type' = type
               /\ crc_match' = matches
               /\ sent' = sent \o v.sent \o response
               /\ handled' =
                     IF type = "COMMAND" /\ matches /\ v.frame[CMD_IDX + 1] \in COMMAND_MAP
                     THEN Append(handled,
                                 [command |-> v.frame[CMD_IDX + 1],
                                  after |-> Len(sent \o v.sent \o response),
                                  acked |-> written])
                     ELSE handled
       ELSE /\ uart_protocol' = CompileUartProtocol
            /\ crc_match' = matches
            /\ UNCHANGED << _data_queue, buffer, frame, frame_type, sent, handled >>
    /\ UNCHANGED << first, _is_running, _serial_port, _listener_thread, ports,
                    threads, uart_call, flash, cursorVars, pc, image, writeVars,
                    result, returned, failed_phase, index_before, programs,
                    faults, histVars, recVars, driverVars, mainVars >>

\* A caller that goes through lines 65-68 of run_main_loop twice, behind its
\* import of uart_protocol: the first time the queue holds the first k bytes
\* of the frame f, the second time the rest of it.
ParseSplit(f, k) ==
    /\ proto_call = "none"
    /\ proto_call' = "split"
    /\ rx' = f
    /\ IF CompileUartProtocol = "ok"
       THEN LET pulled1 == pull_frame(buffer, _data_queue \o Items(SubSeq(f, 1, k)))
                v1 == validate_and_extract_frame(pulled1.buffer)
                pulled2 == pull_frame(v1.buffer,
                                      pulled1.queue \o Items(SubSeq(f, k + 1, Len(f))))
                v2 == validate_and_extract_frame(pulled2.buffer)
            IN /\ uart_protocol' = "loaded"
               /\ first' = [given |-> SubSeq(f, 1, k), frame |-> v1.frame,
                            buffer |-> v1.buffer, sent |-> v1.sent]
               /\ _data_queue' = pulled2.queue
               /\ buffer' = v2.buffer
               /\ frame' = v2.frame
               /\ sent' = sent \o v1.sent \o v2.sent
       ELSE /\ uart_protocol' = CompileUartProtocol
            /\ first' = [NoResult EXCEPT !.given = SubSeq(f, 1, k)]
            /\ UNCHANGED << _data_queue, buffer, frame, sent >>
    /\ UNCHANGED << frame_type, handled, crc_match, _is_running, _serial_port,
                    _listener_thread, ports, threads, uart_call, flash,
                    cursorVars, pc, image, writeVars, result, returned,
                    failed_phase, index_before, programs, faults, histVars,
                    recVars, driverVars, mainVars >>

\* The frame handling of the main loop: split deliveries, buffers that hold
\* no frame, and whole frames with either CRC verdict.
NextFrames ==
    \/ \E f \in ProtocolFrames : \E k \in 1..(Len(f) - 1) : ParseSplit(f, k)
    \/ \E b \in MalformedBuffers : ParseQueued(Items(b))
    \/ \E f \in LoopFrames, matches, written \in BOOLEAN : LoopFrame(f, matches, written)

SpecFrames == Init /\ [][NextFrames]_vars

\* A caller that runs pull_frame beside the listener thread, as
\* run_main_loop does at line 62, behind its import of uart_protocol.  It
\* is followed while the buffer holds no more than MaxQueue bytes.
PullFrame ==
    /\ proto_call = "none" \/ uart_protocol = "loaded"
    /\ Len(buffer) <= MaxQueue
    /\ proto_call' = "pull"
    /\ rx' = Flatten(_data_queue)
    /\ IF CompileUartProtocol = "ok"
       THEN LET pulled == pull_frame(buffer, _data_queue)
            IN /\ uart_protocol' = "loaded"
               /\ _data_queue' = pulled.queue
               /\ buffer' = pulled.buffer
       ELSE /\ uart_protocol' = CompileUartProtocol
            /\ UNCHANGED << _data_queue, buffer >>
    /\ UNCHANGED << frame, frame_type, sent, first, handled, crc_match,
                    _is_running, _serial_port, _listener_thread, ports,
                    threads, uart_call, flash, cursorVars, pc, image,
                    writeVars, result, returned, failed_phase, index_before,
                    programs, faults, histVars, recVars, driverVars, mainVars >>

\* What the receive queue holds when the caller is first looked at: nothing,
\* or the 46 bytes of a frame with the longest payload, one byte per item.
Backlogs ==
    { << >>, Items(MakeFrame(STATUS, [i \in 1..40 |-> 0], << 0, 0 >>, STOP_BYTE)) }

\* The listener started by start_listener, its thread at the loop test.
InitPull ==
    /\ flash = << >>
    /\ next_index_addr = None
    /\ next_data_addr = None
    /\ pc = "main"
    /\ image = NoImage
    /\ result = "none"
    /\ wr_address = 0
    /\ wr_data = << >>
    /\ bytes_written = 0
    /\ returned = << >>
    /\ failed_phase = "none"
    /\ index_before = IndexRegion(flash)
    /\ programs = << >>
    /\ faults = 0
    /\ stored = << >>
    /\ issued = {}
    /\ orphans = {}
    /\ rec_files = << >>
    /\ rec_counts = << 0, 0 >>
    /\ rec_tried = << >>
    /\ rec_fault = NoReadFault
    /\ DriverIdle
    /\ _is_running = TRUE
    /\ _serial_port = 1
    /\ _listener_thread = 1
    /\ _data_queue \in Backlogs
    /\ ports = << TRUE >>
    /\ threads = << [at |-> "check", port |-> IF _data_queue = << >> THEN 0 ELSE 1] >>
    /\ uart_call = [name |-> "start_listener", raised |-> "none"]
    /\ ProtoIdle
    /\ MainIdle

NextPull ==
    \/ PullFrame
    \/ \E t \in 1..Len(threads) : ListenerCheck(t)
    \/ \E t \in 1..Len(threads), b \in WireBytes, raises \in BOOLEAN :
          \/ ListenerRead(t, << b >>, raises)
          \/ ListenerRead(t, << >>, raises)
    \/ \E joined, closes \in BOOLEAN : StopListener(joined, closes)

SpecPull == InitPull /\ [][NextPull]_vars

\* ------------------------------------------------------- main.py: main()
\* str(e).lower() of the exception handle_poweroff (line 55) or
\* handle_reboot (line 77) raises, as its words.
ShutdownMessage(command) ==
    IF command = POWEROFF THEN << "system", "poweroff", "requested", "via", "uart" >>
    ELSE << "system", "reboot", "requested", "via", "uart" >>

Contains(words, w) == \E i \in 1..Len(words) : words[i] = w

\* The exceptions that leave the try block of main: ShutdownRequested from
\* execute_command(POWEROFF) or execute_command(REBOOT), Ctrl+C, and, caught
\* as Exception, FlashMemoryError of a store on a closed device and
\* SerialError of send_data on a closed port.
MainExceptions ==
    { [class |-> "ShutdownRequested", message |-> ShutdownMessage(command)] :
        command \in { POWEROFF, REBOOT } }
    \cup { [class |-> c, message |-> << >>] :
             c \in { "KeyboardInterrupt", "FlashMemoryError", "SerialError" } }

\* A variant of main_except that asks for a poweroff on every
\* ShutdownRequested.
main_except_poweroff(exc) ==
    IF exc.class = "ShutdownRequested" THEN "poweroff" ELSE "none"

\* The except clauses of main, lines 159-171: the shutdown_type they leave.
main_except(exc) ==
    IF exc.class = "ShutdownRequested"
    THEN IF Contains(exc.message, "poweroff") THEN "poweroff"
         ELSE IF Contains(exc.message, "reboot") THEN "reboot"
         ELSE "none"
    ELSE "none"

mainFrame ==
    << flash, cursorVars, pc, image, writeVars, result, returned, failed_phase,
       index_before, programs, faults, histVars, recVars, spi, step, call,
       error, protoVars >>

\* main, lines 139-142: initialize_uart calls start_listener and turns its
\* SerialError into ApplicationError.
MainStart(opens) ==
    /\ main_pc = "idle"
    /\ IF _is_running \/ ~opens
       THEN /\ uart_call' = [name |-> "start_listener", raised |-> "SerialError"]
            /\ raised' = [class |-> "ApplicationError", message |-> << >>]
            /\ shutdown_type' = main_except(raised')
            /\ main_pc' = "finally"
            /\ UNCHANGED << _is_running, _serial_port, _listener_thread,
                            _data_queue, ports, threads >>
       ELSE /\ ports' = Append(ports, TRUE)
            /\ _serial_port' = Len(ports) + 1
            /\ _data_queue' = << >>
            /\ _is_running' = TRUE
            /\ threads' = Append(threads, [at |-> "check", port |-> 0])
            /\ _listener_thread' = Len(threads) + 1
            /\ uart_call' = [name |-> "start_listener", raised |-> "none"]
            /\ main_pc' = "flash_init"
            /\ UNCHANGED << raised, shutdown_type >>
    /\ UNCHANGED << main_flash, events, is_open, mainFrame >>

\* main, lines 145-154: initialize_flash returns an open FlashMemory or
\* None; the index scan that follows only reads.
MainInitFlash(opened) ==
    /\ main_pc = "flash_init"
    /\ main_flash' = opened
    /\ is_open' = opened
    /\ main_pc' = "loop"
    /\ UNCHANGED << shutdown_type, raised, events, uartVars, mainFrame >>

\* An exception leaves run_main_loop, or Ctrl+C arrives during the
\* initialisation, and the matching except clause of main runs.
MainRaise(exc) ==
    /\ main_pc \in { "flash_init", "loop" }
    /\ main_pc = "flash_init" => exc.class = "KeyboardInterrupt"
    /\ exc.class = "FlashMemoryError" => main_flash
    /\ raised' = exc
    /\ shutdown_type' = main_except(exc)
    /\ main_pc' = "finally"
    /\ UNCHANGED << main_flash, events, is_open, uartVars, mainFrame >>

\* system_actions.cleanup, called in the finally clause of main (line 173):
\* stop_listener inside try/except, then flash.close() inside try/except
\* when flash is not None.  spi_closes tells whether spi.close() went
\* through; when it raises, is_open keeps its value.
MainCleanup(joined, closes, spi_closes) ==
    /\ main_pc = "finally"
    /\ SetUartModule(stop_listener(UartModule, joined, closes))
    /\ uart_call' = [name |-> "stop_listener", raised |-> "none"]
    /\ is_open' = IF main_flash /\ is_open /\ spi_closes THEN FALSE ELSE is_open
    /\ events' = events \o << "stop_listener" >>
                        \o (IF main_flash THEN << "flash.close" >> ELSE << >>)
                        \o << "cleanup complete" >>
    /\ main_pc' = "cleaned"
    /\ UNCHANGED << main_flash, shutdown_type, raised, _data_queue, mainFrame >>

\* main, lines 178-182: the system shutdown asked for, after cleanup.
MainShutdown ==
    /\ main_pc = "cleaned"
    /\ events' = IF shutdown_type = "poweroff" THEN Append(events, "poweroff")
                 ELSE IF shutdown_type = "reboot" THEN Append(events, "reboot")
                 ELSE events
    /\ main_pc' = "exited"
    /\ UNCHANGED << main_flash, shutdown_type, raised, is_open, uartVars,
                    mainFrame >>

\* The state before main() is entered: no FlashMemory object, cursors None.
InitMain ==
    /\ flash = << >>
    /\ next_index_addr = None
    /\ next_data_addr = None
    /\ pc = "main"
    /\ image = NoImage
    /\ result = "none"
    /\ wr_address = 0
    /\ wr_data = << >>
    /\ bytes_written = 0
    /\ returned = << >>
    /\ failed_phase = "none"
    /\ index_before = IndexRegion(flash)
    /\ programs = << >>
    /\ faults = 0
    /\ stored = << >>
    /\ issued = {}
    /\ orphans = {}
    /\ rec_files = << >>
    /\ rec_counts = << 0, 0 >>
    /\ rec_tried = << >>
    /\ rec_fault = NoReadFault
    /\ is_open = FALSE
    /\ spi = << >>
    /\ step = "none"
    /\ call = NoCall
    /\ error = "none"
    /\ UartIdle
    /\ ProtoIdle
    /\ MainIdle

\* main() from entry to exit, with the listener thread running beside it.
NextMain ==
    \/ \E opens \in BOOLEAN : MainStart(opens)
    \/ \E opened \in BOOLEAN : MainInitFlash(opened)
    \/ \E exc \in MainExceptions : MainRaise(exc)
    \/ \E joined, closes, spi_closes \in BOOLEAN : MainCleanup(joined, closes, spi_closes)
    \/ MainShutdown
    \/ \E t \in 1..Len(threads) : ListenerCheck(t)
    \/ \E t \in 1..Len(threads), b \in WireBytes, raises \in BOOLEAN :
          \/ ListenerRead(t, << b >>, raises)
          \/ ListenerRead(t, << >>, raises)

SpecMain == InitMain /\ [][NextMain]_vars

\* Store cycles of a process whose cursors stand near the end of the data
\* region or of the index: the index holds filled slots, the last of which
\* ends at data_end, and the live cursors follow it.
CapacityEnds ==
    { DATA_1ST + IndexSlots, DATA_END - 120, DATA_END - 119, DATA_END - 20,
      DATA_END - 19, DATA_END }
CapacityEntries(filled, data_end) ==
    [i \in 1..IndexSlots |->
        IF i < filled THEN create_index_entry(DATA_1ST + i - 1, DATA_1ST + i)
        ELSE IF i = filled THEN create_index_entry(DATA_1ST + i - 1, data_end)
        ELSE Erased(INDEX_ENTRY_SIZE)]

InitCapacity ==
    /\ \E filled \in 0..IndexSlots, data_end \in CapacityEnds :
          /\ filled = 0 => data_end = DATA_END
          /\ flash = IF filled = 0 THEN << >>
                     ELSE IndexImage(CapacityEntries(filled, data_end))
          /\ next_index_addr = INDEX_1ST + filled * INDEX_ENTRY_SIZE
          /\ next_data_addr = IF filled = 0 THEN DATA_1ST ELSE data_end
    /\ image = NoImage
    /\ pc = "main"
    /\ result = "none"
    /\ AtRest

NextCapacity ==
    \/ \E img \in MockImages \cup { NoImage } : StoreReject(img)
    \/ \E img \in MockImages : StoreBegin(img)
    \/ WritePage
    \/ \E landed \in BOOLEAN : WritePageFails(landed)

SpecCapacity == InitCapacity /\ [][NextCapacity]_vars

\* ------------------------------------------------------------------ claims
SlotAddr(k) == INDEX_1ST + (k - 1) * INDEX_ENTRY_SIZE
SlotBytes(f, k) == read_bytes(f, SlotAddr(k), INDEX_ENTRY_SIZE)
SlotUsed(f, k) == SlotBytes(f, k) /= Erased(INDEX_ENTRY_SIZE)
SlotEntry(f, k) ==
    << FromBytesBig(SubSeq(SlotBytes(f, k), 1, 4)),
       FromBytesBig(SubSeq(SlotBytes(f, k), 5, 8)) >>
UsedSlots(f) == { k \in 1..IndexSlots : SlotUsed(f, k) }

\* C1: from erased flash, as long as every store cycle has succeeded, the
\* first entry starts at DATA_1ST, every later entry starts where the entry
\* before it ends, and no empty slot lies before a non-empty one.
C1_Contiguity ==
    faults = 0 =>
        \A k \in UsedSlots(flash) :
            IF k = 1 THEN SlotEntry(flash, k)[1] = DATA_1ST
            ELSE /\ SlotUsed(flash, k - 1)
                 /\ SlotEntry(flash, k)[1] = SlotEntry(flash, k - 1)[2]

\* C1 witness: three cycles in a row have succeeded
C1_Witness ==
    /\ faults = 0
    /\ pc = "main"
    /\ Len(stored) = 3
    /\ UsedSlots(flash) = 1..3
    /\ SlotEntry(flash, 3)[1] = SlotEntry(flash, 2)[2]
    /\ SlotEntry(flash, 2)[1] > DATA_1ST

LiveCursors == << next_index_addr, next_data_addr >>
IndexFull(f) == UsedSlots(f) = 1..IndexSlots

\* C2 as stated: between two cycles, when every cycle so far has succeeded,
\* a scan of the index returns exactly the cursors the live process holds,
\* also once the last slot has been filled.
C2_ScanEqualsLiveCursors ==
    (faults = 0 /\ pc = "main") =>
        find_next_available_address(flash) = LiveCursors

\* C2 amended: the scan returns the live cursors as long as a slot is empty;
\* once the last slot is filled the scan returns (None, None) while the
\* process that filled it holds (INDEX_END + 1, end of the last blob), and a
\* restarted process holds (None, None).
C2_ScanEqualsLiveCursorsUntilFull ==
    (faults = 0 /\ pc = "main") =>
        IF ~IndexFull(flash)
        THEN find_next_available_address(flash) = LiveCursors
        ELSE /\ find_next_available_address(flash) = << None, None >>
             /\ LiveCursors \in
                  { << None, None >>,
                    << INDEX_END + 1, SlotEntry(flash, IndexSlots)[2] >> }

\* C2 witness: the live process has just filled the last slot
C2_Witness ==
    /\ faults = 0
    /\ pc = "main"
    /\ result = "stored"
    /\ Len(stored) = IndexSlots
    /\ IndexFull(flash)
    /\ next_index_addr = INDEX_END + 1
    /\ find_next_available_address(flash) = << None, None >>

LastStored == stored[Len(stored)]

\* C4: the blob of a cycle that returned success is recovered, from the
\* entry the cycle committed, with its exact length and bytes.
C4_RoundTrip ==
    (pc = "main" /\ result = "stored") =>
        LET got == recover_single_image(flash, Len(stored), LastStored.start,
                                        LastStored.end, NoReadFault)
        IN /\ got.ok
           /\ Len(got.data) = ImageSize(LastStored.image)
           /\ got.data = ImageBytes(LastStored.image)

RECURSIVE ConcatData(_)
ConcatData(log) ==
    IF Len(log) = 0 THEN << >>
    ELSE ConcatData(SubSeq(log, 1, Len(log) - 1)) \o log[Len(log)].data
ChunkLengths(log) == [k \in 1..Len(log) |-> Len(log[k].data)]
PagesTouched(address, length) ==
    ((address + length - 1) \div PAGE_SIZE) - (address \div PAGE_SIZE) + 1

\* C5: the page programs of a write_bytes call carry 1 to 256 bytes each,
\* never cross a page boundary, follow one another without gap from the start
\* address and together carry the buffer in order; a call that returns True
\* has issued one program per page touched, and 300 bytes at page offset 200
\* go out as 56 and 244 bytes.
C5_PageChunks ==
    pc \in { "write", "returned" } =>
        /\ \A k \in 1..Len(programs) :
              /\ Len(programs[k].data) >= 1
              /\ Len(programs[k].data) <= PAGE_SIZE
              /\ (programs[k].address % PAGE_SIZE) + Len(programs[k].data) <= PAGE_SIZE
              /\ programs[k].address =
                   wr_address + Len(ConcatData(SubSeq(programs, 1, k - 1)))
        /\ ConcatData(programs) = SubSeq(wr_data, 1, Len(ConcatData(programs)))
        /\ result = "True" =>
              /\ ConcatData(programs) = wr_data
              /\ Len(programs) = PagesTouched(wr_address, Len(wr_data))
        /\ (result = "True" /\ wr_address % PAGE_SIZE = 200 /\ Len(wr_data) = 300) =>
              ChunkLengths(programs) = << 56, 244 >>

\* C5 witness: 300 bytes written at page offset 200 in two programs
C5_Witness ==
    /\ pc = "returned"
    /\ result = "True"
    /\ wr_address % PAGE_SIZE = 200
    /\ Len(wr_data) = 300
    /\ Len(programs) = 2
    /\ read_bytes(flash, wr_address, 300) = wr_data

\* C6 as stated: a scan of a full index returns (None, None), and while the
\* index is full no step of the running process programs a page.
C6_FullIndexStopsWrites ==
    [][IndexFull(flash) =>
          /\ find_next_available_address(flash) = << None, None >>
          /\ flash' = flash
          /\ programs' \in { programs, << >> }]_vars

\* C7: an entry whose chunked read delivered fewer bytes than end - start is
\* marked failed and gets no output file, and the scan goes on: every
\* non-empty slot up to the first empty one is attempted, in order.
C7_ShortReadRejected ==
    pc = "recovered" =>
        /\ Len(rec_tried) = Len(stored)
        /\ rec_counts[2] = Len(rec_tried)
        /\ \A i \in 1..Len(rec_tried) :
              /\ rec_tried[i].slot = SlotAddr(i)
              /\ rec_tried[i].got < rec_tried[i].end - rec_tried[i].start =>
                    /\ ~rec_tried[i].ok
                    /\ \A j \in 1..Len(rec_files) : rec_files[j].number /= i

\* C7 witness: the second chunk read of the 4096-byte blob delivers nothing
\* after 4091 bytes came in, and the entry after it is recovered
C7_Witness ==
    /\ pc = "recovered"
    /\ Len(rec_tried) = 3
    /\ rec_tried[2].got = READ_CHUNK_SIZE
    /\ rec_tried[2].end - rec_tried[2].start = 4096
    /\ ~rec_tried[2].ok
    /\ rec_tried[3].ok
    /\ rec_counts = << 2, 3 >>

\* C8: after the blobs of 100, 4096 and 50 bytes were stored in that order
\* on erased flash, the first three slots hold (0x3000,0x3064),
\* (0x3064,0x4064) and (0x4064,0x4096) as big-endian bytes and the fourth is
\* empty; a recovery scan over a sound transport then finds 3 entries and
\* saves 3 files of 100, 4096 and 50 bytes, numbered in that order.
C8_ThreeBlobScenario ==
    /\ (pc = "main" /\ Len(stored) = 3) =>
          /\ SlotBytes(flash, 1) = << 0, 0, 48, 0, 0, 0, 48, 100 >>
          /\ SlotBytes(flash, 2) = << 0, 0, 48, 100, 0, 0, 64, 100 >>
          /\ SlotBytes(flash, 3) = << 0, 0, 64, 100, 0, 0, 64, 150 >>
          /\ SlotAddr(1) = INDEX_1ST
          /\ SlotAddr(2) = INDEX_1ST + 8
          /\ SlotAddr(3) = INDEX_1ST + 16
          /\ SlotEntry(flash, 1) = << 12288, 12388 >>
          /\ SlotEntry(flash, 2) = << 12388, 16484 >>
          /\ SlotEntry(flash, 3) = << 16484, 16534 >>
          /\ UsedSlots(flash) = 1..3
          /\ SlotBytes(flash, 4) = Erased(INDEX_ENTRY_SIZE)
    /\ (pc = "recovered" /\ Len(stored) = 3 /\ rec_fault = NoReadFault) =>
          /\ rec_counts = << 3, 3 >>
          /\ [j \in 1..Len(rec_files) |-> Len(rec_files[j].data)] = << 100, 4096, 50 >>
          /\ [j \in 1..Len(rec_files) |-> rec_files[j].number] = << 1, 2, 3 >>
          /\ \A j \in 1..Len(rec_files) :
                rec_files[j].data = ImageBytes(stored[j].image)

\* C8 witness: the recovery scan has run after exactly the three stores
C8_Witness ==
    /\ pc = "recovered"
    /\ rec_fault = NoReadFault
    /\ [i \in 1..Len(stored) |-> stored[i].image] = ScenarioOrder
    /\ Len(rec_files) = 3
    /\ UsedSlots(flash) = 1..3
    /\ Len(rec_tried[2].reads) = 2

\* C9 as stated: in every state, every non-empty index entry is the entry
\* some store cycle issued for its blob, and the data range it names holds
\* exactly that blob.
C9_EntriesNameWrittenBlobs ==
    \A k \in UsedSlots(flash) :
        \E r \in issued :
            /\ r.slot = SlotAddr(k)
            /\ SlotEntry(flash, k) = << r.start, r.end >>
            /\ read_bytes(flash, r.start, r.end - r.start) = ImageBytes(r.image)

\* C10 as stated: a blob committed after a cycle was abandoned with bytes
\* programmed and no index entry has a range free of those orphaned bytes,
\* and reads back as it was given.
C10_OrphansHarmless ==
    \A i \in 1..Len(stored) :
        stored[i].orphans /= {} =>
            /\ stored[i].orphans \cap (stored[i].start..(stored[i].end - 1)) = {}
            /\ read_bytes(flash, stored[i].start, stored[i].end - stored[i].start)
                 = ImageBytes(stored[i].image)

\* C11 as stated: once an index slot is non-empty, no step programs a page
\* at that slot again and its 8 bytes never change.
C11_NoEntryOverwritten ==
    [][\A k \in UsedSlots(flash) :
          /\ SlotBytes(flash, k)' = SlotBytes(flash, k)
          /\ Len(programs') > Len(programs) =>
                programs'[Len(programs')].address /= SlotAddr(k)]_vars

\* Number of the first slot whose 8 bytes are all 0xFF (IndexSlots + 1 when
\* there is none).
FirstEmptySlot(f) ==
    IF IndexFull(f) THEN IndexSlots + 1
    ELSE CHOOSE k \in 1..IndexSlots :
            /\ ~SlotUsed(f, k)
            /\ \A j \in 1..(k - 1) : SlotUsed(f, j)

\* C12 as stated: whatever the index holds, the recovery scan attempts every
\* non-empty entry before the first all-0xFF slot, in order, and reports
\* their number as total_found.
C12_EveryEntryAttempted ==
    pc = "recovered" =>
        /\ Len(rec_tried) = FirstEmptySlot(flash) - 1
        /\ rec_counts[2] = FirstEmptySlot(flash) - 1
        /\ \A i \in 1..Len(rec_tried) : rec_tried[i].slot = SlotAddr(i)

\* Number of entries find_next_available_address steps over before it returns.
AllocatorSteps(f) ==
    IF find_next_available_address(f)[1] = None THEN IndexSlots
    ELSE (find_next_available_address(f)[1] - INDEX_1ST) \div INDEX_ENTRY_SIZE

\* C13 as stated: whatever the index holds, the recovery scan and the
\* allocator scan call the same slots empty, and total_found is the number
\* of entries the allocator steps over.
C13_ScansAgree ==
    pc = "recovered" =>
        /\ \A k \in 1..IndexSlots :
              rec_is_index_entry_empty(SlotBytes(flash, k))
                = is_index_entry_empty(SlotBytes(flash, k))
        /\ rec_counts[2] = AllocatorSteps(flash)

MutatingOpcodes == { 18, 33, 92, 220, 196 }
MsbFirst(a) ==
    << a \div 16777216, (a \div 65536) % 256, (a \div 256) % 256, a % 256 >>
IsStatusRead(t) == t.cmd = << 5, 0 >>
WipSet(t) == t.status % 2 = 1

\* The shape of a transfer log: a program or erase command directly follows
\* a Write Enable and carries 4 address bytes (and, for a program, data); a
\* status read follows the command or a status read that showed WIP set.
SequencedLog(log) ==
    \A i \in 1..Len(log) :
        /\ log[i].cmd[1] \in MutatingOpcodes =>
              /\ i > 1
              /\ log[i - 1].cmd = << 6 >>
              /\ IF log[i].cmd[1] = 18 THEN Len(log[i].cmd) > 5
                 ELSE Len(log[i].cmd) = 5
        /\ log[i].cmd[1] = 5 =>
              /\ IsStatusRead(log[i])
              /\ i > 1
              /\ \/ log[i - 1].cmd[1] \in MutatingOpcodes
                 \/ IsStatusRead(log[i - 1]) /\ WipSet(log[i - 1])
        /\ log[i].cmd[1] = 6 => log[i].cmd = << 6 >>

\* C14: every step of a write or an erase keeps the bus log in the sequence
\* Write Enable, command with the address most significant byte first,
\* status reads until WIP reads 0; the next chunk starts only after a status
\* read with WIP clear, and a busy-wait that stops while WIP is set ends the
\* call with the timeout error.
C14_TransportSequence ==
    [][LET n == Len(spi)
           m == Len(spi')
           t == spi'[m]
           pending == pc \in { "program", "erase" } /\ step = "poll"
       IN /\ m \in { n, n + 1 }
          /\ step' = "poll" =>
                /\ m > 0
                /\ \/ t.cmd[1] \in MutatingOpcodes
                   \/ IsStatusRead(t) /\ WipSet(t)
          /\ SequencedLog(spi')
          /\ (m > n /\ t.cmd[1] \in MutatingOpcodes) =>
                /\ SubSeq(t.cmd, 2, 5) =
                     MsbFirst(IF pc = "program" THEN wr_address + bytes_written
                              ELSE call.address)
                /\ pc = "program" =>
                     /\ t.cmd[1] = 18
                     /\ SubSeq(t.cmd, 6, Len(t.cmd)) = programs'[Len(programs')].data
          /\ (m > n /\ t.cmd = << 6 >> /\ pc = "program" /\ bytes_written > 0) =>
                IsStatusRead(spi[n]) /\ ~WipSet(spi[n])
          /\ pending =>
                \/ /\ m > n
                   /\ IsStatusRead(t)
                   /\ IF WipSet(t)
                      THEN \/ pc' = pc /\ step' = "poll" /\ error' = "none"
                           \/ pc' = "main" /\ error' = "timeout" /\ result' = "False"
                      ELSE /\ error' = "none"
                           /\ \/ pc' = "main" /\ result' = "True"
                              \/ pc' = "program" /\ step' = "enable"
                \/ m = n /\ pc' = "main" /\ error' = "transport" /\ result' = "False"
      ]_vars

\* C14 witness: a write of two chunks has returned True after a status read
\* that showed the chip busy
C14_Witness ==
    /\ pc = "main"
    /\ result = "True"
    /\ Len(programs) = 2
    /\ Len(spi) >= 7
    /\ \E i \in 1..Len(spi) : IsStatusRead(spi[i]) /\ WipSet(spi[i])
    /\ spi[Len(spi)] = [cmd |-> << 5, 0 >>, status |-> 0]

\* C15: a write_bytes call on an open device never raises; when a chunk
\* fails it ends at once with False, the failed chunk is not counted as
\* written, no address is programmed twice, and nothing is programmed
\* between the return and the next call.
C15_FailedChunkEndsWrite ==
    [][/\ pc = "program" =>
            /\ result' /= "raised"
            /\ pc' \in { "program", "main" }
            /\ error' \in { "timeout", "transport" } =>
                  /\ pc' = "main"
                  /\ result' = "False"
                  /\ bytes_written' = bytes_written
                  /\ programs' = programs
            /\ \A i, j \in 1..Len(programs') :
                  i < j => programs'[i].address < programs'[j].address
            /\ Len(programs') <= PagesTouched(wr_address, Len(wr_data))
       /\ (pc = "main" /\ pc' /= "program") => programs' = programs
      ]_vars

\* C15 witness: the first of two chunks timed out; the second was never sent
C15_Witness ==
    /\ pc = "main"
    /\ is_open
    /\ result = "False"
    /\ error = "timeout"
    /\ Len(wr_data) = 300
    /\ bytes_written = 0
    /\ Len(programs) = 1
    /\ Len(programs[1].data) = 56

\* C16: on a device that is not open, every driver call and every store
\* cycle raises the connection error without a transfer and without touching
\* the chip; the store cycle is not turned into a failure result, it ends the
\* process, after which nothing runs.
C16_ClosedDeviceFailsFast ==
    [][/\ pc /= "exited"
       /\ ~is_open =>
            /\ spi' = spi
            /\ flash' = flash
            /\ programs' = programs
            /\ result' = "raised"
            /\ error' = "not_open"
            /\ step' = "none"
            /\ pc' \in { "main", "exited" }
            /\ cursorVars' = cursorVars
            /\ ~is_open'
      ]_vars

\* C16 witness: a store cycle was attempted after the device was used and
\* then closed
C16_Witness ==
    /\ pc = "exited"
    /\ ~is_open
    /\ result = "raised"
    /\ error = "not_open"
    /\ Len(spi) > 0

\* C17: validate_storage_capacity returns False exactly when the blob would
\* end beyond DATA_END (0x07FFFFFF) or the index cursor lies beyond
\* INDEX_END, and True otherwise.
C17_CapacityCheck ==
    pc = "returned" =>
        /\ result \in { "True", "False" }
        /\ result = "False" <=>
              \/ next_data_addr + ImageSize(image) > 134217727
              \/ next_index_addr > INDEX_END

\* C17 witness: a blob ending exactly at DATA_END with the cursor exactly at
\* INDEX_END is accepted
C17_Witness ==
    /\ pc = "returned"
    /\ result = "True"
    /\ ImageSize(image) > 0
    /\ next_data_addr + ImageSize(image) = DATA_END
    /\ next_index_addr = INDEX_END

\* C18: a cycle that ends rejected, for an empty blob or for capacity, has
\* programmed nothing and leaves chip and cursors as they were; a cycle
\* reaches its first write only with a non-empty blob that passed the
\* capacity check, and the chip changes only inside such a cycle.
C18_RejectedCycleWritesNothing ==
    [][/\ result' \in { "rejected", "halted" } =>
            /\ flash' = flash
            /\ cursorVars' = cursorVars
            /\ programs' = << >>
            /\ returned' = << >>
            /\ pc' = "main"
       /\ (pc = "main" /\ pc' = "data") =>
            /\ flash' = flash
            /\ ImageSize(image') > 0
            /\ next_data_addr + ImageSize(image') <= DATA_END
            /\ next_index_addr <= INDEX_END
       /\ flash' /= flash => pc \in { "data", "index" }
      ]_vars

\* C18 witness: after a successful store, the next cycle was rejected
\* because its blob no longer fits the data region
C18_Witness ==
    /\ pc = "main"
    /\ result = "rejected"
    /\ Len(stored) = 1
    /\ next_index_addr <= INDEX_END
    /\ \E img \in MockImages : next_data_addr + ImageSize(img) > DATA_END

\* C19: whatever the index holds, a scan for the cursors returns the address
\* of the first all-0xFF slot together with the end address of the entry
\* just before it (DATA_1ST when the first slot is empty), and (None, None)
\* when there is no such slot; the slot it returns is empty and every slot
\* before it is not.
C19_ScanFindsFirstEmptySlot ==
    [][(pc = "main" /\ pc' = "main") =>
          LET k == FirstEmptySlot(flash)
          IN IF k > IndexSlots
             THEN next_index_addr' = None /\ next_data_addr' = None
             ELSE /\ next_index_addr' = SlotAddr(k)
                  /\ SlotBytes(flash, k) = Erased(INDEX_ENTRY_SIZE)
                  /\ \A j \in 1..(k - 1) :
                        SlotBytes(flash, j) /= Erased(INDEX_ENTRY_SIZE)
                  /\ next_data_addr' =
                        IF k = 1 THEN DATA_1ST
                        ELSE FromBytesBig(SubSeq(SlotBytes(flash, k - 1),
                                                 ADDRESS_SIZE + 1,
                                                 INDEX_ENTRY_SIZE))
      ]_vars

\* C19 witness: the scan has stepped over an entry of negative size and a
\* slot whose start half is erased, and stands at the third slot with the
\* end address of the second
C19_Witness ==
    /\ pc = "main"
    /\ SlotBytes(flash, 1) = create_index_entry(DATA_1ST + 5, DATA_1ST)
    /\ SlotBytes(flash, 2) = Erased(ADDRESS_SIZE) \o ToBytesBig(DATA_1ST + 8)
    /\ next_index_addr = SlotAddr(3)
    /\ next_data_addr = DATA_1ST + 8

\* C20 as stated: a cycle rejected for capacity returns something other
\* than the None of a cycle that failed on a write, and once a cycle has
\* been rejected for capacity the loop starts no further write.
C20_CapacityFaultDistinctAndTerminal ==
    [][/\ result' = "failed" => returned' = << >>
       /\ result' = "rejected" => returned' /= << >>
       /\ result = "rejected" => pc' = "main"
      ]_vars

\* C21: a recovery run sends only Read Data commands, at least one, after
\* whatever was sent before; it leaves the chip, the live cursors and the
\* cursors a later scan would return as they were, whether its entries were
\* recovered or failed.
C21_RecoveryReadsOnly ==
    [][pc' = "recovered" =>
          /\ flash' = flash
          /\ cursorVars' = cursorVars
          /\ find_next_available_address(flash')
               = find_next_available_address(flash)
          /\ Len(spi') > Len(spi)
          /\ SubSeq(spi', 1, Len(spi)) = spi
          /\ \A i \in (Len(spi) + 1)..Len(spi') :
                /\ spi'[i].cmd[1] = 19
                /\ spi'[i].cmd[1] \notin MutatingOpcodes \cup { 6 }
      ]_vars

\* C21 witness: a run that recovered one entry and failed on another
C21_Witness ==
    /\ pc = "recovered"
    /\ rec_counts[2] >= 2
    /\ rec_counts[1] >= 1
    /\ rec_counts[1] < rec_counts[2]
    /\ Len(spi) > rec_counts[2]

\* C25: in every state the module can be in, a call of stop_listener
\* returns without raising and leaves _is_running False, no port and no
\* thread recorded, whether or not the join timed out or the close failed;
\* a further call returns the state unchanged.
C25_StopListenerIdempotent ==
    /\ uart_call.name = "stop_listener" =>
          /\ uart_call.raised = "none"
          /\ ~is_running
          /\ _serial_port = 0
          /\ _listener_thread = 0
    /\ \A joined, closes, joined_again, closes_again \in BOOLEAN :
          LET once == stop_listener(UartModule, joined, closes)
          IN /\ ~once.is_running
             /\ once.serial_port = 0
             /\ once.listener_thread = 0
             /\ stop_listener(once, joined_again, closes_again) = once

\* C25 witness: stop_listener was called on a running listener, whose
\* thread ended within the join and whose port was closed
C25_Witness ==
    /\ uart_call.name = "stop_listener"
    /\ Len(ports) = 1
    /\ ~ports[1]
    /\ AliveThreads = {}
    /\ Len(threads) = 1

\* C26 as stated: a start_listener call made while the listener is running
\* raises SerialError and opens no port, leaves the queue and starts no
\* thread; and never is more than one listener thread alive.
C26_SingleListener ==
    [][/\ (_is_running /\ uart_call'.name = "start_listener"
              /\ uart_call' /= uart_call) =>
            /\ uart_call'.raised = "SerialError"
            /\ ports' = ports
            /\ threads' = threads
            /\ _data_queue' = _data_queue
       /\ Cardinality(AliveThreads') <= 1
      ]_vars

StructurallyValid(bytes) ==
    /\ Len(bytes) >= 6
    /\ Len(bytes) <= 45
    /\ bytes[1] = 62
    /\ Len(bytes) = bytes[3] + 6
    /\ bytes[Len(bytes)] = 10

\* C22 as stated: when the queue held one structurally valid frame, one
\* byte per item, pull_frame and validate_and_extract_frame have returned
\* that frame and left the buffer empty; when valid frame bytes were
\* followed by more bytes, the frame is the first L+6 bytes and the buffer
\* keeps the rest in order.
C22_SingleFrameExtracted ==
    proto_call = "parse" =>
        /\ StructurallyValid(rx) => frame = rx /\ buffer = << >>
        /\ \A n \in 6..Len(rx) :
              (StructurallyValid(SubSeq(rx, 1, n)) /\ Len(rx) <= 45) =>
                  /\ frame = SubSeq(rx, 1, n)
                  /\ buffer = SubSeq(rx, n + 1, Len(rx))

\* C23 as stated: a frame of more than 6 bytes is COMMAND, the two NACK
\* patterns are NACK_CHECKSUM and NACK_FORMAT, any other 6-byte frame is
\* COMMAND when its command byte is a key of COMMAND_MAP and ACK otherwise.
C23_FrameClassified ==
    proto_call = "classify" =>
        frame_type =
            IF Len(rx) > 6 THEN "COMMAND"
            ELSE IF rx = << 62, 255, 0, 255, 255, 10 >> THEN "NACK_CHECKSUM"
            ELSE IF rx = << 62, 0, 0, 0, 0, 10 >> THEN "NACK_FORMAT"
            ELSE IF rx[2] \in { POWEROFF, REBOOT, STATUS } THEN "COMMAND"
            ELSE "ACK"

\* C24 as stated: byte 2 is a key of COMMAND_MAP, and the frame
\* 3E 02 00 56 78 0A has been classified COMMAND.
C24_StatusIsByte2 ==
    (proto_call = "classify" /\ rx = << 62, 2, 0, 86, 120, 10 >>) =>
        /\ 2 \in COMMAND_MAP
        /\ frame_type = "COMMAND"

\* C27: the loop's cursors change only in the step in which a store cycle
\* returns success, and become the returned pair, the old index cursor
\* plus 8 and the old data cursor plus the length of the blob; a cycle that
\* ends in any other way leaves them, and the cycle that begins next is
\* called with the cursors the loop holds.
C27_CursorsFollowSuccess ==
    [][/\ cursorVars' /= cursorVars => result' = "stored" /\ pc = "index"
       /\ (pc = "index" /\ result' = "stored") =>
             /\ pc' = "main"
             /\ returned' = << next_index_addr', next_data_addr' >>
             /\ next_index_addr' = next_index_addr + 8
             /\ next_data_addr' = next_data_addr + Len(ImageBytes(image))
       /\ (pc' = "main" /\ result' \in { "failed", "rejected", "halted" }) =>
             /\ cursorVars' = cursorVars
             /\ returned' = << >>
       /\ (pc = "main" /\ pc' = "data") =>
             /\ cursorVars' = cursorVars
             /\ wr_address' = next_data_addr
      ]_vars

\* C27 witness: after one success and one failed cycle, a cycle is under
\* way at the cursors the success returned
C27_Witness ==
    /\ pc = "data"
    /\ faults = 1
    /\ Len(stored) = 1
    /\ returned = << >>
    /\ wr_address = next_data_addr
    /\ next_data_addr = stored[1].end
    /\ next_index_addr = stored[1].slot + 8

\* C28 as stated: in every state reached from erased flash through store
\* cycles, every non-empty index entry has end_addr > start_addr.
C28_EntriesHavePositiveSize ==
    \A k \in UsedSlots(flash) : SlotEntry(flash, k)[2] > SlotEntry(flash, k)[1]

\* C29: an index entry whose end address is not above its start address is
\* turned down by recover_single_image before any flash read: the recovery
\* run sends no read transfer addressed at the entry's start, saves no file
\* for it, counts it in the total of entries found and not among the
\* recovered ones.
C29_InvalidSizeEntrySkipped ==
    pc = "recovered" =>
        /\ rec_counts[2] = Len(rec_tried)
        /\ rec_counts[1] = Cardinality({ i \in 1..Len(rec_tried) : rec_tried[i].ok })
        /\ \A i \in 1..Len(rec_tried) :
              rec_tried[i].end - rec_tried[i].start <= 0 =>
                  /\ ~rec_tried[i].ok
                  /\ rec_tried[i].reads = << >>
                  /\ \A k \in 1..Len(rec_files) : rec_files[k].number /= i
                  /\ \A t \in 1..Len(spi) :
                        SubSeq(spi[t].cmd, 2, 1 + ADDRESS_SIZE)
                            /= ToBytesBig(rec_tried[i].start)

C29_Witness ==
    /\ pc = "recovered"
    /\ rec_counts = << 1, 3 >>
    /\ \E i, j, k \in 1..Len(rec_tried) :
          /\ rec_tried[i].end < rec_tried[i].start
          /\ rec_tried[j].end = rec_tried[j].start
          /\ rec_tried[k].ok
    /\ Len(rec_files) = 1

\* C30: when the transport delivers every byte asked for, the reads made
\* for an index entry of positive size are at most READ_CHUNK_SIZE bytes
\* long each, start at the entry's start address, follow one another with
\* no gap and no overlap, end exactly at the entry's end address, and
\* deliver as many bytes as the entry is long; each is sent to the chip as
\* one Read Data transfer.
C30_ChunksCoverEntryOnce ==
    pc = "recovered" =>
        \A i \in 1..Len(rec_tried) :
            LET start_addr == rec_tried[i].start
                end_addr == rec_tried[i].end
                reads == rec_tried[i].reads
            IN (end_addr - start_addr > 0 /\ rec_fault.entry /= i) =>
                  /\ Len(reads) >= 1
                  /\ reads[1][1] = start_addr
                  /\ \A j \in 1..Len(reads) :
                        /\ reads[j][2] \in 1..READ_CHUNK_SIZE
                        /\ reads[j][1] = start_addr + ((j - 1) * READ_CHUNK_SIZE)
                        /\ reads[j][1] + reads[j][2] <= end_addr
                        /\ j < Len(reads) => reads[j + 1][1] = reads[j][1] + reads[j][2]
                        /\ \E t \in 1..Len(spi) :
                              /\ Len(spi[t].cmd) = 1 + ADDRESS_SIZE + reads[j][2]
                              /\ SubSeq(spi[t].cmd, 1, 1 + ADDRESS_SIZE)
                                    = << CMD_READ_DATA_4B >> \o ToBytesBig(reads[j][1])
                  /\ reads[Len(reads)][1] + reads[Len(reads)][2] = end_addr
                  /\ rec_tried[i].got = end_addr - start_addr
                  /\ rec_tried[i].ok

C30_Witness ==
    /\ pc = "recovered"
    /\ rec_fault = NoReadFault
    /\ Len(rec_tried) = 3
    /\ rec_tried[1].reads = << << DATA_1ST, 100 >> >>
    /\ rec_tried[2].reads = << << DATA_1ST + 100, READ_CHUNK_SIZE >>,
                               << DATA_1ST + 100 + READ_CHUNK_SIZE, 5 >> >>
    /\ rec_tried[3].reads = << << DATA_1ST + 4196, 50 >> >>

\* C31: when validate_and_extract_frame runs while the buffer holds only
\* the first k bytes of a well-formed frame, it returns None, keeps those k
\* bytes and sends nothing; after the rest has been pulled the next call
\* returns the whole frame and leaves the buffer empty.  For every frame
\* and every k from 1 to the frame's length less one.
C31_PartialFrameWaits ==
    proto_call = "split" =>
        /\ first.frame = << >>
        /\ first.buffer = first.given
        /\ first.sent = << >>
        /\ frame = rx
        /\ buffer = << >>
        /\ sent = << >>

BadFrameNack == << 62, 0, 0, 0, 0, 10 >>
ChecksumNack == << 62, 255, 0, 255, 255, 10 >>

\* C32: validate_and_extract_frame on an empty buffer returns None and
\* sends nothing; on a buffer whose first byte is not 0x3E, or whose byte
\* at the end of the expected frame is not 0x0A, it sends exactly one
\* bad-frame NACK, empties the buffer and returns None.
C32_MalformedBufferNacked ==
    proto_call = "parse" =>
        /\ rx = << >> => frame = << >> /\ sent = << >> /\ buffer = << >>
        /\ (rx /= << >> /\ rx[1] /= 62) =>
              frame = << >> /\ sent = << BadFrameNack >> /\ buffer = << >>
        /\ (Len(rx) >= 6 /\ rx[1] = 62 /\ Len(rx) >= rx[3] + 6
               /\ rx[rx[3] + 6] /= 10) =>
              frame = << >> /\ sent = << BadFrameNack >> /\ buffer = << >>

\* The type the frame f is to be given: frames with a payload are
\* commands; of the 6-byte frames the two NACK patterns come first, then
\* the known command bytes, and the rest are ACKs.
ClaimedType(f) ==
    IF Len(f) > 6 THEN "COMMAND"
    ELSE IF f = ChecksumNack THEN "NACK_CHECKSUM"
    ELSE IF f = BadFrameNack THEN "NACK_FORMAT"
    ELSE IF f[2] \in { POWEROFF, REBOOT, STATUS } THEN "COMMAND"
    ELSE "ACK"

\* C33: in one pass of the main loop over a frame of at most 45 bytes, a
\* handler has run only for a frame classified COMMAND whose CRC matched,
\* and exactly one frame had been sent before it, the ACK carrying the
\* frame's command byte and its two CRC bytes; a COMMAND frame whose CRC
\* did not match has drawn exactly one checksum NACK and no handler; a
\* frame classified ACK or NACK has drawn no response and no handler.
C33_HandlerOnlyAfterAck ==
    (proto_call = "loop" /\ Len(rx) <= 45) =>
        /\ \A i \in 1..Len(handled) :
              /\ ClaimedType(rx) = "COMMAND"
              /\ crc_match = TRUE
              /\ handled[i].command = rx[2]
              /\ handled[i].after = 1
              /\ handled[i].acked
              /\ sent = << << 62, rx[2], 0, rx[Len(rx) - 2], rx[Len(rx) - 1], 10 >> >>
        /\ (ClaimedType(rx) = "COMMAND" /\ crc_match = FALSE) =>
              sent = << ChecksumNack >> /\ handled = << >>
        /\ ClaimedType(rx) \in { "ACK", "NACK_FORMAT", "NACK_CHECKSUM" } =>
              sent = << >> /\ handled = << >>

\* C34: whenever the listener thread started last has ended, or none was
\* started, is_running() returns False and the STATUS report says that the
\* UART is STOPPED.
C34_IsRunningFollowsThread ==
    (_listener_thread = 0 \/ ~Alive(_listener_thread)) =>
        /\ ~is_running
        /\ handle_status_uart = "STOPPED"

\* C35: whatever ends main, cleanup has run exactly once before main
\* returns: stop_listener was called (the listener flag and port are
\* cleared) and, when main holds a FlashMemory, flash.close() was called;
\* poweroff or reboot is run only after cleanup is complete, and only the
\* one whose command raised ShutdownRequested; before cleanup nothing of
\* this has happened.
C35_CleanupBeforeShutdown ==
    /\ main_pc \in { "idle", "flash_init", "loop", "finally" } => events = << >>
    /\ main_pc \in { "cleaned", "exited" } =>
          /\ SubSeq(events, 1, IF main_flash THEN 3 ELSE 2)
                = << "stop_listener" >>
                    \o (IF main_flash THEN << "flash.close" >> ELSE << >>)
                    \o << "cleanup complete" >>
          /\ ~_is_running
          /\ _serial_port = 0
    /\ main_pc = "cleaned" => Len(events) = IF main_flash THEN 3 ELSE 2
    /\ main_pc = "exited" =>
          SubSeq(events, (IF main_flash THEN 3 ELSE 2) + 1, Len(events))
            = IF raised.class = "ShutdownRequested"
                   /\ raised.message = ShutdownMessage(POWEROFF)
              THEN << "poweroff" >>
              ELSE IF raised.class = "ShutdownRequested"
                      /\ raised.message = ShutdownMessage(REBOOT)
              THEN << "reboot" >>
              ELSE << >>

C35_Witness ==
    /\ main_pc = "exited"
    /\ raised.class = "ShutdownRequested"
    /\ events = << "stop_listener", "flash.close", "cleanup complete", "reboot" >>

\* The page program a step has added to the log of the running cycle.
NewProgram == programs'[Len(programs')]
LastAddress(p) == p.address + Len(p.data) - 1

\* C36: every page program issued while a store cycle writes its blob lies
\* within [DATA_1ST, DATA_END], every page program issued while it writes
\* its index entry carries 8 bytes within [INDEX_1ST, INDEX_END], and the
\* address sent fits in four bytes.
C36_ProgramsStayInRegion ==
    [][Len(programs') = Len(programs) + 1 =>
          /\ NewProgram.address >= 0
          /\ NewProgram.address \div 16777216 < 256
          /\ pc = "data" =>
                /\ NewProgram.address >= DATA_1ST
                /\ LastAddress(NewProgram) <= DATA_END
          /\ pc = "index" =>
                /\ NewProgram.address >= INDEX_1ST
                /\ LastAddress(NewProgram) <= INDEX_END
                /\ Len(NewProgram.data) = INDEX_ENTRY_SIZE
      ]_vars

\* C37: every index entry is committed by exactly one page-program command.
\* Whenever the index write of a store cycle is pending, its address is
\* INDEX_1ST plus a multiple of 8, its 8 bytes lie within one 256-byte page
\* and none of them has been issued yet; the next step of the cycle ends the
\* index write, with at most one page program, and that program carries the
\* whole entry at the slot address.
C37_EntryInOneProgram ==
    [][pc = "index" =>
          /\ (wr_address - INDEX_1ST) % INDEX_ENTRY_SIZE = 0
          /\ Len(wr_data) = INDEX_ENTRY_SIZE
          /\ wr_address \div PAGE_SIZE = (wr_address + Len(wr_data) - 1) \div PAGE_SIZE
          /\ bytes_written = 0
          /\ pc' /= "index"
          /\ Len(programs') <= Len(programs) + 1
          /\ Len(programs') = Len(programs) + 1 =>
                NewProgram = [address |-> wr_address, data |-> wr_data]
      ]_vars

\* An entry was stored in the last slot of a page by one program.
C37_Witness ==
    /\ pc = "main"
    /\ result = "stored"
    /\ Len(stored) = 1
    /\ programs = << [address |-> INDEX_1ST + PAGE_SIZE - INDEX_ENTRY_SIZE,
                      data |-> EntryFor(DATA_1ST, ImageSize(stored[1].image))] >>
    /\ returned[1] = INDEX_1ST + PAGE_SIZE

\* TRUE iff the last n transfers of the log are status reads that report busy.
AllBusy(log, n) ==
    /\ n >= 1
    /\ \A i \in (Len(log) - n + 1)..Len(log) :
          /\ log[i].cmd[1] = CMD_READ_STATUS_REG1
          /\ Busy(log[i].status)

\* C38: a write_bytes call terminates with True or False.  Each iteration of
\* its chunk loop programs at least one byte and the loop issues at most one
\* page program per page touched; a busy-wait ends because the WIP bit reads
\* 0 or because the timeout raises, and a call whose last busy-wait only saw
\* the WIP bit set ends with False, never with True.
C38_WriteTerminates ==
    /\ [](pc = "program" =>
            /\ Len(programs) <= PagesTouched(wr_address, Len(wr_data))
            /\ \A i \in 1..Len(programs) : Len(programs[i].data) >= 1
            /\ step = "enable" => ChunkSize(wr_address, Len(wr_data), bytes_written) >= 1)
    /\ [](pc = "main" /\ result = "True" /\ Len(spi) > 0 => ~AllBusy(spi, 1))
    /\ (pc = "program") ~> (pc = "main" /\ result \in { "True", "False" })

\* A write_bytes call whose busy-wait saw the WIP bit set on every poll has
\* ended with False on the timeout.
C38_Witness ==
    /\ pc = "main"
    /\ result = "False"
    /\ error = "timeout"
    /\ Len(programs) = 1
    /\ TrailingPolls(spi) = MaxPolls
    /\ AllBusy(spi, MaxPolls)

\* TRUE of a step that is a pull_frame call: nothing of uart.py but the
\* queue changes.
PullStep ==
    /\ proto_call' = "pull"
    /\ UNCHANGED << _is_running, _serial_port, _listener_thread, ports, threads, uart_call >>

\* C39: a pull_frame call moves the oldest items of the queue, all of them
\* or 45 when there are more, to the end of the buffer in queue order and
\* returns also when the queue is empty; no other step changes the buffer,
\* and the listener changes the queue only by appending one byte.  So each
\* byte enqueued reaches the buffer once and in arrival order.
C39_QueueToBufferInOrder ==
    [][IF PullStep
       THEN LET n == Min(MAXIMUM_BUFFER_SIZE, Len(_data_queue))
            IN /\ buffer' = buffer \o Flatten(SubSeq(_data_queue, 1, n))
               /\ _data_queue' = SubSeq(_data_queue, n + 1, Len(_data_queue))
       ELSE /\ buffer' = buffer
            /\ \/ _data_queue' = _data_queue
               \/ \E b \in WireBytes : _data_queue' = Append(_data_queue, << b >>)
      ]_vars

====
